---- MODULE Spec2Model ----
(***************************************************************************)
(* A model of the deterministic code-analysis kernel (vcr):                *)
(*   - CPG fusion (cpg/builder.rs), the CPG hash (cpg/hash.rs), the        *)
(*     derived indices (cpg/index.rs) and the snapshot store (storage);    *)
(*   - the execution plan and scheduler (execution/);                      *)
(*   - the bounded pointer analysis (analysis/pointer.rs).                 *)
(* Each subsystem has its own specification over the shared variables.     *)
(***************************************************************************)
EXTENDS Integers, Sequences, FiniteSets, TLC

VARIABLES
    phase,      \* the subsystem the behaviour exercises: "cpg", "snap", "sched", "ptr",
                \* "taint", "query", "cfg", "dfg", "symbols", "invalidation", "epochs"
    semantic,   \* the SemanticEpoch the CPG epochs are built from
    epochs,     \* CPG epoch slot -> CPGEpoch record, or NoEpoch before its build
    builders,   \* CPG epoch slot -> the CPGBuilder that built it (its counters)
    disk,       \* the snapshot file: NoFile, or the serialized SnapshotMetadata
    saved,      \* the CPG handed to the last CPGSnapshot::save, or NoCPG
    loaded,     \* the result of the last CPGSnapshot::load / verify
    sched,      \* scheduler run: plan, CPG, thread counts, per-run progress
    ptr,        \* pointer analysis run: CPG, points_to map, flags, loop position
    taint,      \* taint analysis run: CPG, sources, sinks, queue, visited, results
    query,      \* query primitive calls: CPG, arguments, BFS state, results
    cfgb,       \* CFG builder run: the parsed tree and the CFGs built from it
    dfgb,       \* semantic builds of the versions of a file: trees, CFGs, DFGs, hashes
    symtab,     \* symbol table run: the table built from a tree, and lookups on it
    tracker,    \* invalidation tracker run: the tracker, the changed ranges, results
    life        \* epoch lifetimes: the live epochs of the four layers, the last result

vars == <<phase, semantic, epochs, builders, disk, saved, loaded, sched, ptr,
          taint, query, cfgb,
                   dfgb, symtab, tracker, life>>

(***************************************************************************)
(* Bounds of the model                                                     *)
(***************************************************************************)
MaxFuncs == 2      \* functions per analysed file
MaxStmts == 2      \* simple statements per function body

(***************************************************************************)
(* Generic sequence helpers                                                *)
(***************************************************************************)
Range(s) == {s[i] : i \in DOMAIN s}

RECURSIVE SumSeq(_)
SumSeq(s) == IF s = <<>> THEN 0 ELSE Head(s) + SumSeq(Tail(s))

RECURSIVE ConcatAll(_)
ConcatAll(ss) == IF ss = <<>> THEN <<>> ELSE Head(ss) \o ConcatAll(Tail(ss))

\* All orderings (without repetition) of the elements of a finite set.
RECURSIVE Perms(_)
Perms(S) ==
    IF S = {} THEN {<<>>}
    ELSE UNION {{<<x>> \o p : p \in Perms(S \ {x})} : x \in S}

\* Stable insertion of x into a sequence sorted by Key.
RECURSIVE InsertByKey(_, _, _)
InsertByKey(Key(_), x, s) ==
    IF s = <<>> THEN <<x>>
    ELSE IF Key(x) < Key(Head(s)) THEN <<x>> \o s
    ELSE <<Head(s)>> \o InsertByKey(Key, x, Tail(s))

\* Vec::sort / sort_by_key: a stable sort by Key.
RECURSIVE SortByKey(_, _)
SortByKey(Key(_), s) ==
    IF s = <<>> THEN <<>>
    ELSE InsertByKey(Key, s[Len(s)], SortByKey(Key, SubSeq(s, 1, Len(s) - 1)))

(***************************************************************************)
(* The frozen CPG schema (cpg/model.rs)                                    *)
(***************************************************************************)
\* CPGNodeKind, with `kind as u8` its declaration position.
CPGNodeKindTag ==
    [AstNode |-> 0, CfgNode |-> 1, DfgValue |-> 2, Symbol |-> 3, Function |-> 4, File |-> 5]

\* CPGEdgeKind, with `kind as u8` its declaration position.
CPGEdgeKindTag ==
    [AstParent |-> 0, AstChild |-> 1, ControlFlow |-> 2, DataFlow |-> 3,
     Defines |-> 4, Uses |-> 5, Calls |-> 6, PointsTo |-> 7]

CPGNodeKinds == DOMAIN CPGNodeKindTag
CPGEdgeKinds == DOMAIN CPGEdgeKindTag

ByteRange(start, end) == [start |-> start, end |-> end]

\* CPGNode::new(...).with_label(...)
CPGNode(id, kind, origin, source_range, label) ==
    [id |-> id, kind |-> kind, origin |-> origin, source_range |-> source_range,
     label |-> label]

\* CPGEdge::new
CPGEdge(id, kind, from, to) == [id |-> id, kind |-> kind, from |-> from, to |-> to]

\* CPG::new
CPGNew == [nodes |-> <<>>, edges |-> <<>>]

NoLabel == "None"

\* CPG::get_node: the first node with this id, or None.
HasNode(cpg, id) == \E i \in DOMAIN cpg.nodes : cpg.nodes[i].id = id
GetNode(cpg, id) ==
    cpg.nodes[CHOOSE i \in DOMAIN cpg.nodes :
                  /\ cpg.nodes[i].id = id
                  /\ \A j \in 1..(i - 1) : cpg.nodes[j].id # id]

(***************************************************************************)
(* CPG::compute_hash (cpg/hash.rs).  SHA-256 is modelled by its preimage:  *)
(* the exact sequence of fields fed to the hasher, so two CPGs have equal  *)
(* hashes iff they feed the hasher the same data.  Labels and origins are  *)
(* not hashed.                                                             *)
(***************************************************************************)
HashNodeFields(n) ==
    <<n.id, CPGNodeKindTag[n.kind], n.source_range.start, n.source_range.end>>

HashEdgeFields(e) == <<e.id, CPGEdgeKindTag[e.kind], e.from, e.to>>

compute_hash(cpg) ==
    <<Len(cpg.nodes)>>
        \o ConcatAll([i \in DOMAIN cpg.nodes |-> HashNodeFields(cpg.nodes[i])])
        \o <<Len(cpg.edges)>>
        \o ConcatAll([i \in DOMAIN cpg.edges |-> HashEdgeFields(cpg.edges[i])])

(***************************************************************************)
(* Inputs: analysed files.  A file is a sequence of function items; entry  *)
(* j is the number of `let` statements in the body of the j-th function,   *)
(* as in `fn f1() { let x = 1; }` of the determinism tests.                *)
(***************************************************************************)
FnNames == <<"f1", "f2", "f3", "f4">>
VarNames == <<"x", "y", "z", "w">>

ParsedFiles == UNION {[1..n -> 0..MaxStmts] : n \in 0..MaxFuncs}

\* Byte layout of the source text: "fn fJ(){" stmts "}" and a newline.
FnLen(k) == 8 + 10 * k
FnStart(src, j) == SumSeq([i \in 1..(j - 1) |-> FnLen(src[i]) + 1])
FnRange(src, j) == ByteRange(FnStart(src, j), FnStart(src, j) + FnLen(src[j]))
StmtRange(src, j, i) ==
    ByteRange(FnStart(src, j) + 7 + 10 * (i - 1), FnStart(src, j) + 16 + 10 * (i - 1))

(***************************************************************************)
(* CFGs as CFGBuilder produces them for bodies of simple statements        *)
(* (semantic/cfg/builder.rs): Entry and Exit first, then one Statement     *)
(* node per statement; node ids and function ids count up per builder,     *)
(* that is per file.                                                       *)
(***************************************************************************)
CFGNode(id, kind, source_range) == [id |-> id, kind |-> kind, source_range |-> source_range]
CFGEdge(from, to, kind) == [from |-> from, to |-> to, kind |-> kind]

\* next_node_id when the j-th function of the file is reached.
NodeBase(src, j) == SumSeq([i \in 1..(j - 1) |-> 2 + src[i]])

build_function_cfg(src, j) ==
    LET k == src[j]
        entry_id == NodeBase(src, j)
        exit_id == entry_id + 1
        stmt_id(i) == exit_id + i
        last_node == IF k = 0 THEN entry_id ELSE stmt_id(k)
    IN  [function_id |-> j - 1,
         nodes |-> <<CFGNode(entry_id, "Entry", FnRange(src, j)),
                     CFGNode(exit_id, "Exit", FnRange(src, j))>>
                   \o [i \in 1..k |-> CFGNode(stmt_id(i), "Statement", StmtRange(src, j, i))],
         edges |-> [i \in 1..k |->
                       CFGEdge(IF i = 1 THEN entry_id ELSE stmt_id(i - 1), stmt_id(i), "Normal")]
                   \o <<CFGEdge(last_node, exit_id, "Normal")>>,
         entry |-> entry_id,
         exit |-> exit_id]

build_all(src) == [j \in 1..Len(src) |-> build_function_cfg(src, j)]

(***************************************************************************)
(* DFGs (semantic/model.rs): one per function, value ids counting up from  *)
(* 0 in every DFG (DFGBuilder::new).  The DFGs handed to add_dfg hold one  *)
(* Variable value per `let` and an edge from each value to the next.       *)
(***************************************************************************)
DFGValue(id, name, source_range) ==
    [id |-> id, kind |-> "Variable", name |-> name, source_range |-> source_range]
DFGEdge(from, to, kind) == [from |-> from, to |-> to, kind |-> kind]

FunctionDfg(src, j) ==
    [function_id |-> j - 1,
     values |-> [i \in 1..src[j] |-> DFGValue(i - 1, VarNames[i], StmtRange(src, j, i))],
     edges |-> [i \in 1..(src[j] - 1) |-> DFGEdge(i - 1, i, "Use")]]

FileDfgs(src) == [j \in 1..Len(src) |-> FunctionDfg(src, j)]

(***************************************************************************)
(* Symbol table (semantic/symbols/table.rs, binding.rs).  The file scope   *)
(* binds each function's name; symbol ids count up over all symbols of     *)
(* the file (functions and the lets of their bodies).  Scope::bindings is  *)
(* a HashMap: `iter_order` is the order in which this map instance yields  *)
(* its keys, fixed when the table is built and arbitrary.                  *)
(***************************************************************************)
Symbol(id, name, source_range, scope, kind) ==
    [id |-> id, name |-> name, source_range |-> source_range, scope |-> scope, kind |-> kind]

\* next_symbol_id when the j-th function item is visited.
SymbolBase(src, j) == SumSeq([i \in 1..(j - 1) |-> 1 + src[i]])

\* The file scope's symbols in declaration order.
FileScopeDecls(src) ==
    [j \in 1..Len(src) |-> Symbol(SymbolBase(src, j), FnNames[j], FnRange(src, j), 0, "Function")]

\* SymbolTable::new + build, for one of the map's possible iteration orders.
SymbolTableBuild(src, iter_order) ==
    LET decls == FileScopeDecls(src)
    IN  [file_scope |-> 0,
         symbols |-> [id \in {decls[j].id : j \in DOMAIN decls} |->
                         decls[CHOOSE j \in DOMAIN decls : decls[j].id = id]],
         bindings |-> [name \in {decls[j].name : j \in DOMAIN decls} |->
                         decls[CHOOSE j \in DOMAIN decls :
                                  /\ decls[j].name = name
                                  /\ \A l \in DOMAIN decls : decls[l].name = name => l <= j].id],
         decl_order |-> [j \in DOMAIN decls |-> decls[j].id],
         iter_order |-> iter_order]

SymbolTables(src) ==
    {SymbolTableBuild(src, o) : o \in Perms({FnNames[j] : j \in 1..Len(src)})}

\* SymbolTable::symbols_in_scope: bindings().values() mapped through symbols.
symbols_in_scope(table, scope) ==
    IF scope = table.file_scope
    THEN LET ids == [i \in DOMAIN table.iter_order |-> table.bindings[table.iter_order[i]]]
             present == SelectSeq(ids, LAMBDA id : id \in DOMAIN table.symbols)
         IN  [i \in DOMAIN present |-> table.symbols[present[i]]]
    ELSE <<>>

(***************************************************************************)
(* SemanticEpoch (semantic/epoch.rs): per-file CFGs, DFGs, symbol tables.  *)
(***************************************************************************)
\* A left fold; each intermediate result is computed before the next element
\* is taken.
FoldLeft(Op(_, _), acc, seq) ==
    LET RECURSIVE Go(_, _)
        Go(a, i) == IF i > Len(seq)
                    THEN a
                    ELSE LET next == Op(a, seq[i])
                         IN  IF next = next THEN Go(next, i + 1) ELSE a
    IN  Go(acc, 1)

Reverse(s) == [i \in DOMAIN s |-> s[Len(s) + 1 - i]]

\* A Vec filled by add_cfg / add_dfg calls made in declaration order or not.
InsertionOrders(s) == {s, Reverse(s)}

\* The files of the epoch, in whatever order the accessor yields them.
get_all_file_ids(sem) == sem.file_ids

\* SemanticEpoch::get_cfgs / get_dfgs / get_symbols: Some iff the key is present.
get_cfgs(sem, file_id) == sem.cfgs[file_id]
get_dfgs(sem, file_id) == sem.dfgs[file_id]
get_symbols(sem, file_id) == sem.symbols[file_id]

\* The file of test_cpg_hash_stability: `fn test() { let x = 1; }`.
TestFile == <<1>>

\* File ids of the epoch: TestFile, when present, has the id just below or
\* just above the varied file's, so it is fused before or after it.
VariedFileId == 2
OtherFileIds == {VariedFileId - 1, VariedFileId + 1}

\* The sources of the epoch's files: the varied file alone, or with TestFile.
FileSets(src) ==
    {[f \in {VariedFileId} |-> src]}
        \cup {[f \in {VariedFileId, o} |-> IF f = o THEN TestFile ELSE src] : o \in OtherFileIds}

\* The SemanticEpoch holding `files`, the varied file's CFGs, DFGs and symbol
\* table as given, the accessor yielding the file ids in `order`.
SemanticEpochOf(files, order, cfgs, dfgs, table) ==
    [file_ids |-> order,
     cfgs |-> [f \in {g \in DOMAIN files : Len(files[g]) > 0} |->
                  IF f = VariedFileId THEN cfgs ELSE build_all(files[f])],
     dfgs |-> [f \in {g \in DOMAIN files : Len(files[g]) > 0} |->
                  IF f = VariedFileId THEN dfgs ELSE FileDfgs(files[f])],
     symbols |-> [f \in DOMAIN files |->
                  IF f = VariedFileId THEN table
                  ELSE SymbolTableBuild(files[f], <<FnNames[1]>>)]]

(***************************************************************************)
(* CPGBuilder (cpg/builder.rs)                                             *)
(***************************************************************************)
EpochSlots == {1, 2}
NoEpoch == [none |-> TRUE]
NoBuilder == [none |-> TRUE]

\* A faulty CPGBuilder::new: the id counters are shared between builders,
\* so a later builder continues where an earlier one stopped.
CPGBuilderNewShared ==
    IF \E k \in EpochSlots : builders[k] # NoBuilder
    THEN builders[CHOOSE k \in EpochSlots : builders[k] # NoBuilder]
    ELSE [next_node_id |-> 0, next_edge_id |-> 0]

\* CPGBuilder::new
CPGBuilderNew == [next_node_id |-> 0, next_edge_id |-> 0]

\* Fusion state: the builder's counters and the CPG being filled.
\* cpg.add_node(CPGNode::new(self.next_node_id(), ...))
AddNode(b, kind, origin, source_range, label) ==
    [b EXCEPT !.cpg.nodes = Append(@, CPGNode(b.next_node_id, kind, origin, source_range, label)),
              !.next_node_id = @ + 1]

\* cpg.add_edge(CPGEdge::new(self.next_edge_id(), ...))
AddEdge(b, kind, from, to) ==
    [b EXCEPT !.cpg.edges = Append(@, CPGEdge(b.next_edge_id, kind, from, to)),
              !.next_edge_id = @ + 1]

OriginRef(type, id) == [type |-> type, id |-> id]

\* Steps 2-4 for one CFG: the Function node, the CFG nodes, the CFG edges.
\* An edge's endpoints are the raw CFG node ids: CPGNodeId(cfg_edge.from.0).
FuseCfg(b, cfg) ==
    LET b1 == AddNode(b, "Function", OriginRef("Function", cfg.function_id),
                      ByteRange(0, 0), NoLabel)
        b2 == FoldLeft(LAMBDA a, n : AddNode(a, "CfgNode", OriginRef("Cfg", n.id),
                                             n.source_range, n.kind),
                       b1, cfg.nodes)
    IN  FoldLeft(LAMBDA a, e : AddEdge(a, "ControlFlow", e.from, e.to), b2, cfg.edges)

\* Step 5 for one DFG: its values, then its edges (raw ValueIds as endpoints).
FuseDfg(b, dfg) ==
    LET b1 == FoldLeft(LAMBDA a, v : AddNode(a, "DfgValue", OriginRef("Dfg", v.id),
                                             v.source_range, v.kind),
                       b, dfg.values)
    IN  FoldLeft(LAMBDA a, e : AddEdge(a, "DataFlow", e.from, e.to), b1, dfg.edges)

\* Step 6: one Symbol node per file-scope symbol.
FuseSymbol(b, symbol) ==
    AddNode(b, "Symbol", OriginRef("Symbol", symbol.id), symbol.source_range, symbol.name)

FunctionIdKey(cfg) == cfg.function_id

\* sorted_cfgs.sort_by_key(|cfg| cfg.function_id)
SortedCfgs(cfgs) == SortByKey(FunctionIdKey, cfgs)

\* The body of the `for file_id in file_ids` loop.
FuseFile(sem, b, file_id) ==
    LET b1 == AddNode(b, "File", OriginRef("File", file_id), ByteRange(0, 0), NoLabel)
        b2 == IF file_id \in DOMAIN sem.cfgs
              THEN FoldLeft(FuseCfg, b1, SortedCfgs(get_cfgs(sem, file_id)))
              ELSE b1
        b3 == IF file_id \in DOMAIN sem.dfgs
              THEN FoldLeft(FuseDfg, b2, get_dfgs(sem, file_id))
              ELSE b2
    IN  IF file_id \in DOMAIN sem.symbols
        THEN LET table == get_symbols(sem, file_id)
             IN  FoldLeft(FuseSymbol, b3, symbols_in_scope(table, table.file_scope))
        ELSE b3

IdKey(x) == x

\* file_ids.sort()
SortedFileIds(sem) == SortByKey(IdKey, get_all_file_ids(sem))

(***************************************************************************)
(* CPGIndices::build (cpg/index.rs): lookups keyed by id; absent keys are  *)
(* outside the DOMAIN.                                                     *)
(***************************************************************************)
\* The sub-sequence of the indices of s whose element satisfies Test.
SelectIdx(s, Test(_)) == SelectSeq([i \in DOMAIN s |-> i], LAMBDA i : Test(s[i]))

CPGIndicesNew ==
    [symbol_to_defs |-> <<>>, var_to_uses |-> <<>>, func_to_calls |-> <<>>,
     node_edges |-> <<>>]

\* node_edges keyed by the edge's target.
PushByTarget(node_edges, edge) ==
    LET by_kind == IF edge.to \in DOMAIN node_edges THEN node_edges[edge.to] ELSE <<>>
        ids == IF edge.kind \in DOMAIN by_kind THEN by_kind[edge.kind] ELSE <<>>
    IN  (edge.to :> ((edge.kind :> Append(ids, edge.id)) @@ by_kind)) @@ node_edges

\* The body of the first loop of CPGIndices::build:
\* node_edges.entry(edge.from).or_insert_with(..).entry(edge.kind).or_insert_with(..).push(edge.id)
PushEdge(node_edges, edge) ==
    LET by_kind == IF edge.from \in DOMAIN node_edges THEN node_edges[edge.from] ELSE <<>>
        ids == IF edge.kind \in DOMAIN by_kind THEN by_kind[edge.kind] ELSE <<>>
    IN  (edge.from :> ((edge.kind :> Append(ids, edge.id)) @@ by_kind)) @@ node_edges

CPGIndicesBuild(cpg) ==
    LET E == cpg.edges
        N == cpg.nodes
        EdgesWhere(Test(_)) == SelectSeq(E, Test)
        SymNodes == SelectSeq(N, LAMBDA n : n.kind = "Symbol" /\ n.origin.type = "Symbol")
        DfgNodes == SelectSeq(N, LAMBDA n : n.kind = "DfgValue" /\ n.origin.type = "Dfg")
        UsesOf(n) == EdgesWhere(LAMBDA e : e.to = n.id /\ e.kind = "DataFlow")
        UsedDfgNodes == SelectSeq(DfgNodes, LAMBDA n : UsesOf(n) # <<>>)
        CallEdges == EdgesWhere(LAMBDA e : /\ e.kind = "Calls"
                                          /\ HasNode(cpg, e.to)
                                          /\ GetNode(cpg, e.to).origin.type = "Function")
    IN  [node_edges |-> FoldLeft(PushEdge, <<>>, E),
         symbol_to_defs |->
            [sid \in {SymNodes[i].origin.id : i \in DOMAIN SymNodes} |->
                LET ns == SelectSeq(SymNodes, LAMBDA n : n.origin.id = sid)
                IN  [i \in DOMAIN ns |-> ns[i].id]],
         var_to_uses |->
            [vid \in {UsedDfgNodes[i].origin.id : i \in DOMAIN UsedDfgNodes} |->
                ConcatAll(LET ns == SelectSeq(UsedDfgNodes, LAMBDA n : n.origin.id = vid)
                          IN  [i \in DOMAIN ns |->
                                  LET us == UsesOf(ns[i]) IN [l \in DOMAIN us |-> us[l].from]])],
         func_to_calls |->
            [fid \in {GetNode(cpg, CallEdges[i].to).origin.id : i \in DOMAIN CallEdges} |->
                LET es == SelectSeq(CallEdges, LAMBDA e : GetNode(cpg, e.to).origin.id = fid)
                IN  [i \in DOMAIN es |-> es[i].from]]]

(***************************************************************************)
(* CPGEpoch (cpg/epoch.rs)                                                 *)
(***************************************************************************)
CPGEpochNew(semantic_epoch_marker, epoch_id) ==
    [semantic_epoch_marker |-> semantic_epoch_marker, cpg |-> CPGNew,
     indices |-> CPGIndicesNew, epoch_id |-> epoch_id]

\* CPGEpoch::rebuild_indices
rebuild_indices(epoch) == [epoch EXCEPT !.indices = CPGIndicesBuild(epoch.cpg)]

\* CPGBuilder::build: the fusion loop over the sorted file ids, then the
\* index rebuild.  Yields the builder and the epoch as the call leaves them.
CPGBuilderBuild(builder, sem, cpg_epoch) ==
    LET start == [cpg |-> cpg_epoch.cpg,
                  next_node_id |-> builder.next_node_id,
                  next_edge_id |-> builder.next_edge_id]
        end == FoldLeft(LAMBDA a, f : FuseFile(sem, a, f), start, SortedFileIds(sem))
    IN  [builder |-> [next_node_id |-> end.next_node_id, next_edge_id |-> end.next_edge_id],
         epoch |-> rebuild_indices([cpg_epoch EXCEPT !.cpg = end.cpg])]

(***************************************************************************)
(* Snapshot store (storage/mod.rs)                                         *)
(***************************************************************************)
STORAGE_VERSION == 1

NoFile == <<>>
NoCPG == [none |-> TRUE]
NotLoaded == [op |-> "none"]

\* SystemTime::now() as seconds: any value of the clock.
Clock == {1000, 1001}

\* SnapshotMetadata::new
SnapshotMetadataNew(epoch_id, cpg_hash, timestamp) ==
    [epoch_id |-> epoch_id, cpg_hash |-> cpg_hash, timestamp |-> timestamp,
     version |-> STORAGE_VERSION]

\* serde_json::to_string(&metadata): the fields in declaration order.  The
\* file holds the metadata only; no node or edge of the CPG is written.
Serialize(metadata) ==
    <<<<"epoch_id", metadata.epoch_id>>, <<"cpg_hash", metadata.cpg_hash>>,
      <<"timestamp", metadata.timestamp>>, <<"version", metadata.version>>>>

\* serde_json::from_str::<SnapshotMetadata>
Deserialize(text) ==
    LET field(name) == text[CHOOSE i \in DOMAIN text : text[i][1] = name][2]
    IN  [epoch_id |-> field("epoch_id"), cpg_hash |-> field("cpg_hash"),
         timestamp |-> field("timestamp"), version |-> field("version")]

\* CPGSnapshot::save: what is written to the path.
SnapshotSave(cpg, now) == Serialize(SnapshotMetadataNew(0, compute_hash(cpg), now))

\* CPGSnapshot::load: reads the file and returns an empty CPG.
SnapshotLoad(file) ==
    IF file = NoFile THEN [op |-> "load", ok |-> FALSE]
    ELSE [op |-> "load", ok |-> TRUE, cpg |-> CPGNew]

\* CPGSnapshot::verify: the stored hash, or an error on a version mismatch.
SnapshotVerify(file) ==
    IF file = NoFile THEN [op |-> "verify", ok |-> FALSE]
    ELSE LET metadata == Deserialize(file)
         IN  IF metadata.version # STORAGE_VERSION
             THEN [op |-> "verify", ok |-> FALSE]
             ELSE [op |-> "verify", ok |-> TRUE, cpg_hash |-> metadata.cpg_hash]

(***************************************************************************)
(* Specification Spec: build CPG epochs from one SemanticEpoch, each with  *)
(* a fresh builder and a fresh epoch.                                      *)
(***************************************************************************)
\* The epoch id of the SemanticEpoch in the tests.
SemanticEpochId == 3

IdleSched == [none |-> TRUE]
IdlePtr == [none |-> TRUE]
IdleTaint == [none |-> TRUE]
IdleQuery == [none |-> TRUE]
IdleCfgb == [none |-> TRUE]
IdleDfgb == [none |-> TRUE]
IdleSymtab == [none |-> TRUE]
IdleTracker == [none |-> TRUE]
IdleLife == [none |-> TRUE]

Init ==
    /\ phase = "cpg"
    /\ \E src \in ParsedFiles :
         \E files \in FileSets(src), cfgs \in InsertionOrders(build_all(src)),
            dfgs \in InsertionOrders(FileDfgs(src)), table \in SymbolTables(src) :
           \E order \in Perms(DOMAIN files) :
             semantic = SemanticEpochOf(files, order, cfgs, dfgs, table)
    /\ epochs = [k \in EpochSlots |-> NoEpoch]
    /\ builders = [k \in EpochSlots |-> NoBuilder]
    /\ disk = NoFile
    /\ saved = NoCPG
    /\ loaded = NotLoaded
    /\ sched = IdleSched
    /\ ptr = IdlePtr
    /\ taint = IdleTaint
    /\ query = IdleQuery
    /\ cfgb = IdleCfgb
    /\ dfgb = IdleDfgb
    /\ symtab = IdleSymtab
    /\ tracker = IdleTracker
    /\ life = IdleLife

\* let mut e = CPGEpoch::new(3, 3 + k); CPGBuilder::new().build(&semantic, &mut e)
BuildCPG(k) ==
    /\ phase = "cpg"
    /\ epochs[k] = NoEpoch
    /\ LET r == CPGBuilderBuild(CPGBuilderNew, semantic,
                                CPGEpochNew(SemanticEpochId, SemanticEpochId + k))
       IN  /\ epochs' = [epochs EXCEPT ![k] = r.epoch]
           /\ builders' = [builders EXCEPT ![k] = r.builder]
    /\ UNCHANGED <<phase, semantic, disk, saved, loaded, sched, ptr, taint, query, cfgb,
                   dfgb, symtab, tracker, life>>

Next == \E k \in EpochSlots : BuildCPG(k)

Spec == Init /\ [][Next]_vars

(***************************************************************************)
(* Specification SpecSnap: snapshots of a CPG epoch.  The epoch in slot 1  *)
(* is a fresh one (an empty CPG, as in test_snapshot_verify) or one built  *)
(* from a single-file SemanticEpoch.                                       *)
(***************************************************************************)
SnapInit ==
    /\ phase = "snap"
    /\ \E src \in ParsedFiles :
         semantic = SemanticEpochOf([f \in {VariedFileId} |-> src], <<VariedFileId>>,
                                    build_all(src), FileDfgs(src),
                                    SymbolTableBuild(src, [j \in 1..Len(src) |-> FnNames[j]]))
    /\ \E fresh \in BOOLEAN :
         LET e == CPGEpochNew(SemanticEpochId, SemanticEpochId + 1)
             r == CPGBuilderBuild(CPGBuilderNew, semantic, e)
         IN  /\ epochs = [k \in EpochSlots |-> IF k = 1 THEN (IF fresh THEN e ELSE r.epoch)
                                               ELSE NoEpoch]
             /\ builders = [k \in EpochSlots |-> IF k = 1 THEN (IF fresh THEN CPGBuilderNew
                                                                ELSE r.builder)
                                                 ELSE NoBuilder]
    /\ disk = NoFile
    /\ saved = NoCPG
    /\ loaded = NotLoaded
    /\ sched = IdleSched
    /\ ptr = IdlePtr
    /\ taint = IdleTaint
    /\ query = IdleQuery
    /\ cfgb = IdleCfgb
    /\ dfgb = IdleDfgb
    /\ symtab = IdleSymtab
    /\ tracker = IdleTracker
    /\ life = IdleLife

\* CPGSnapshot::save(epochs[1].cpg(), path)
Save ==
    /\ phase = "snap"
    /\ \E now \in Clock : disk' = SnapshotSave(epochs[1].cpg, now)
    /\ saved' = epochs[1].cpg
    /\ UNCHANGED <<phase, semantic, epochs, builders, loaded, sched, ptr, taint, query, cfgb,
                   dfgb, symtab, tracker, life>>

\* CPGSnapshot::load(path)
Load ==
    /\ phase = "snap"
    /\ loaded' = SnapshotLoad(disk)
    /\ UNCHANGED <<phase, semantic, epochs, builders, disk, saved, sched, ptr, taint, query, cfgb,
                   dfgb, symtab, tracker, life>>

\* CPGSnapshot::verify(path)
Verify ==
    /\ phase = "snap"
    /\ loaded' = SnapshotVerify(disk)
    /\ UNCHANGED <<phase, semantic, epochs, builders, disk, saved, sched, ptr, taint, query, cfgb,
                   dfgb, symtab, tracker, life>>

\* The versions a file written by another build of the format can carry; 999
\* is the one of test_snapshot_version_mismatch.
OtherVersions == {0, 2, 999}

\* std::fs::write(path, serde_json::to_string(&bad_metadata)), as in
\* test_snapshot_version_mismatch: a metadata file with another version.
WriteOtherVersion ==
    /\ phase = "snap"
    /\ \E version \in OtherVersions :
          disk' = Serialize([epoch_id |-> 1, cpg_hash |-> <<"test">>, timestamp |-> 0,
                             version |-> version])
    /\ saved' = NoCPG
    /\ UNCHANGED <<phase, semantic, epochs, builders, loaded, sched, ptr, taint, query, cfgb,
                   dfgb, symtab, tracker, life>>

SnapNext == Save \/ Load \/ Verify \/ WriteOtherVersion

SpecSnap == SnapInit /\ [][SnapNext]_vars

(***************************************************************************)
(* Claims about CPG fusion (under Spec) and snapshots (under SpecSnap)      *)
(***************************************************************************)
Built(k) == epochs[k] # NoEpoch

C2_SnapshotRoundTrip ==
    (loaded.op = "load" /\ loaded.ok /\ saved # NoCPG) =>
        compute_hash(loaded.cpg) = compute_hash(saved)

\* The fusion order C7 states, for the nodes: per file in ascending FileId the
\* File node; per function in ascending FunctionId the Function node, its CFG
\* nodes, then that function's DFG values; then the file-scope symbols in
\* declaration order.  Entries are <<kind, origin>>.
DfgsOfFunction(sem, f, function_id) ==
    IF f \in DOMAIN sem.dfgs
    THEN SelectSeq(sem.dfgs[f], LAMBDA d : d.function_id = function_id)
    ELSE <<>>

StatedNodeOrder(sem) ==
    ConcatAll([fi \in DOMAIN SortedFileIds(sem) |->
        LET f == SortedFileIds(sem)[fi]
            cfgs == IF f \in DOMAIN sem.cfgs THEN SortedCfgs(sem.cfgs[f]) ELSE <<>>
            table == sem.symbols[f]
        IN  <<<<"File", OriginRef("File", f)>>>>
            \o ConcatAll([c \in DOMAIN cfgs |->
                  LET ds == DfgsOfFunction(sem, f, cfgs[c].function_id)
                  IN  <<<<"Function", OriginRef("Function", cfgs[c].function_id)>>>>
                      \o [i \in DOMAIN cfgs[c].nodes |->
                             <<"CfgNode", OriginRef("Cfg", cfgs[c].nodes[i].id)>>]
                      \o ConcatAll([d \in DOMAIN ds |->
                             [i \in DOMAIN ds[d].values |->
                                 <<"DfgValue", OriginRef("Dfg", ds[d].values[i].id)>>]])])
            \o [i \in DOMAIN table.decl_order |->
                   <<"Symbol", OriginRef("Symbol", table.decl_order[i])>>]])

\* The same for the edges: per function its ControlFlow edges, then its
\* DataFlow edges.  Entries are <<kind, from, to>>.
StatedEdgeOrder(sem) ==
    ConcatAll([fi \in DOMAIN SortedFileIds(sem) |->
        LET f == SortedFileIds(sem)[fi]
            cfgs == IF f \in DOMAIN sem.cfgs THEN SortedCfgs(sem.cfgs[f]) ELSE <<>>
        IN  ConcatAll([c \in DOMAIN cfgs |->
                  LET ds == DfgsOfFunction(sem, f, cfgs[c].function_id)
                  IN  [i \in DOMAIN cfgs[c].edges |->
                          <<"ControlFlow", cfgs[c].edges[i].from, cfgs[c].edges[i].to>>]
                      \o ConcatAll([d \in DOMAIN ds |->
                             [i \in DOMAIN ds[d].edges |->
                                 <<"DataFlow", ds[d].edges[i].from, ds[d].edges[i].to>>]])])])

NodeOrder(cpg) == [i \in DOMAIN cpg.nodes |-> <<cpg.nodes[i].kind, cpg.nodes[i].origin>>]
EdgeOrder(cpg) ==
    [i \in DOMAIN cpg.edges |-> <<cpg.edges[i].kind, cpg.edges[i].from, cpg.edges[i].to>>]

\* C7: after build, the node and edge sequences follow the stated fusion order.
C7_FusionOrder ==
    \A k \in EpochSlots :
        Built(k) => /\ NodeOrder(epochs[k].cpg) = StatedNodeOrder(semantic)
                    /\ EdgeOrder(epochs[k].cpg) = StatedEdgeOrder(semantic)

(***************************************************************************)
(* Query primitives (query/primitives.rs) over the CPG accessors           *)
(***************************************************************************)
\* CPG::get_edges_from: the edges leaving a node, in creation order.
get_edges_from(cpg, from) == SelectSeq(cpg.edges, LAMBDA e : e.from = from)

\* CPG::get_nodes_of_kind: the nodes of a kind, in creation order.
get_nodes_of_kind(cpg, kind) == SelectSeq(cpg.nodes, LAMBDA n : n.kind = kind)

\* QueryPrimitives::find_nodes
find_nodes(cpg, kind) ==
    LET ns == get_nodes_of_kind(cpg, kind) IN [i \in DOMAIN ns |-> ns[i].id]

\* A follow_edge that reports each target once.
FollowEdgeOnce(cpg, from, kind) ==
    LET es == SelectSeq(cpg.edges, LAMBDA e : e.from = from /\ e.kind = kind)
        first == SelectSeq([i \in DOMAIN es |-> i],
                           LAMBDA i : \A j \in 1..(i - 1) : es[j].to # es[i].to)
    IN  [i \in DOMAIN first |-> es[first[i]].to]

\* QueryPrimitives::follow_edge
follow_edge(cpg, from, kind) ==
    LET es == SelectSeq(get_edges_from(cpg, from), LAMBDA e : e.kind = kind)
    IN  [i \in DOMAIN es |-> es[i].to]

\* Option<CPGNodeKind>::None
NoKind == "None"

\* QueryPrimitives::filter
filter(nodes, cpg, kind) ==
    IF kind = NoKind THEN nodes
    ELSE SelectSeq(nodes, LAMBDA id : HasNode(cpg, id) /\ GetNode(cpg, id).kind = kind)

\* QueryPrimitives::intersect
intersect(a, b) == SelectSeq(a, LAMBDA n : n \in Range(b))

(***************************************************************************)
(* Tasks and plans (execution/task.rs, execution/plan.rs)                  *)
(***************************************************************************)
MaxTasks == 3      \* tasks per plan

\* enum DeterministicOrder
DeterministicOrder == {"TaskId", "Stable"}

\* Task::new
Task(id, work, dependencies, result_slot) ==
    [id |-> id, work |-> work, dependencies |-> dependencies, result_slot |-> result_slot]

\* Task::is_ready
is_ready(task, completed) ==
    \A i \in DOMAIN task.dependencies : task.dependencies[i] \in completed

\* Stage::new
Stage(tasks, commit_order) == [parallel_tasks |-> tasks, commit_order |-> commit_order]

TaskIdKey(task) == task.id

\* A commit order that follows the order the tasks of a stage finish in: with
\* more than one worker the last task inserted finishes first.
TasksInCompletionOrder(stage) ==
    IF sched.thread_count > 1 THEN Reverse(stage.parallel_tasks) ELSE stage.parallel_tasks

\* A commit order that sorts by task id whatever the stage's commit_order.
TasksSortedById(stage) == SortByKey(TaskIdKey, stage.parallel_tasks)

\* Stage::tasks_in_commit_order
tasks_in_commit_order(stage) ==
    IF stage.commit_order = "TaskId"
    THEN SortByKey(TaskIdKey, stage.parallel_tasks)
    ELSE stage.parallel_tasks

\* ExecutionPlan::task_count
task_count(plan) ==
    SumSeq([s \in DOMAIN plan.stages |-> Len(plan.stages[s].parallel_tasks)])

\* The CPG CPGBuilder::build fuses from an epoch holding the one file `src`.
FusedCPG(src) ==
    CPGBuilderBuild(CPGBuilderNew,
        SemanticEpochOf([f \in {VariedFileId} |-> src], <<VariedFileId>>,
                        build_all(src), FileDfgs(src),
                        SymbolTableBuild(src, [j \in DOMAIN src |-> FnNames[j]])),
        CPGEpochNew(SemanticEpochId, SemanticEpochId + 1)).epoch.cpg

\* The CPG the plans query: two functions of one statement each, fused by
\* CPGBuilder::build.
QuerySource == <<1, 1>>
QueryCPG == FusedCPG(QuerySource)

SchedCPGs == {CPGNew, QueryCPG}

\* The work fragments of the plans' tasks, one of each variant; a task's
\* fragment is picked by its id, so tasks of one plan have different results.
Works ==
    << [type |-> "FindNodes", kind |-> "Function"],
       [type |-> "FollowEdges", from |-> <<0, 2, 3>>, kind |-> "ControlFlow"],
       [type |-> "Intersect", a |-> <<1, 2, 3>>, b |-> <<3, 1>>],
       [type |-> "Filter", nodes |-> <<0, 1, 2, 5>>, kind |-> "CfgNode"] >>

WorkOf(id) == Works[((id - 1) % Len(Works)) + 1]

\* The plans: tasks 1..n inserted in `order`, the first `split` of them in
\* the first stage and the rest in the second; task id's slot is id % slots;
\* task 1 depends on task `dep` (no task when dep = 0).
PlanOf(order, split, slots, dep, c1, c2) ==
    LET tasks == [i \in DOMAIN order |->
                     Task(order[i], WorkOf(order[i]),
                          IF order[i] = 1 /\ dep # 0 THEN <<dep>> ELSE <<>>,
                          order[i] % slots)]
    IN  [stages |-> << Stage(SubSeq(tasks, 1, split), c1),
                       Stage(SubSeq(tasks, split + 1, Len(tasks)), c2) >>]

(***************************************************************************)
(* Scheduler (execution/scheduler.rs)                                      *)
(***************************************************************************)
ThreadCounts == {1, 4}

\* Scheduler::new
SchedulerNew(thread_count) ==
    [thread_count |-> IF thread_count > 1 THEN thread_count ELSE 1]

\* Scheduler::execute_task
execute_task(task, cpg) ==
    CASE task.work.type = "FindNodes" -> find_nodes(cpg, task.work.kind)
      [] task.work.type = "FollowEdges" ->
            ConcatAll([i \in DOMAIN task.work.from |->
                          follow_edge(cpg, task.work.from[i], task.work.kind)])
      [] task.work.type = "Filter" -> filter(task.work.nodes, cpg, task.work.kind)
      [] task.work.type = "Intersect" -> intersect(task.work.a, task.work.b)

\* HashMap::new / insert / get(..).cloned().unwrap_or_default() on the
\* per-stage result storage, keyed by result slot.
NoSlots == <<>>
SlotInsert(slots, slot, result) ==
    [k \in DOMAIN slots \cup {slot} |-> IF k = slot THEN result ELSE slots[k]]
SlotGet(slots, slot) == IF slot \in DOMAIN slots THEN slots[slot] ELSE <<>>

\* No execution came before this one.
NoRun == [none |-> TRUE]

\* The scheduler's variable before Scheduler::new: the plan and the CPG are
\* fixed for the behaviour.
SchedStart(plan, cpg) ==
    [plan |-> plan, cpg |-> cpg, pc |-> "idle", thread_count |-> 0,
     stage |-> 0, task |-> 0, slots |-> NoSlots, results |-> <<>>,
     completed |-> {}, executed |-> <<>>, commits |-> <<>>, staged |-> <<>>,
     prior |-> NoRun]

SchedInit ==
    /\ phase = "sched"
    /\ semantic = [none |-> TRUE]
    /\ epochs = [k \in EpochSlots |-> NoEpoch]
    /\ builders = [k \in EpochSlots |-> NoBuilder]
    /\ disk = NoFile
    /\ saved = NoCPG
    /\ loaded = NotLoaded
    /\ ptr = IdlePtr
    /\ \E n \in 0..MaxTasks, cpg \in SchedCPGs :
         \E order \in Perms(1..n), split \in 0..n, slots \in 1..(MaxTasks + 1),
            dep \in {0} \cup 2..(n + 1), c1 \in DeterministicOrder, c2 \in DeterministicOrder :
           sched = SchedStart(PlanOf(order, split, slots, dep, c1, c2), cpg)
    /\ taint = IdleTaint
    /\ query = IdleQuery
    /\ cfgb = IdleCfgb
    /\ dfgb = IdleDfgb
    /\ symtab = IdleSymtab
    /\ tracker = IdleTracker
    /\ life = IdleLife

\* Scheduler::new(t).execute(plan, cpg), up to the first stage: the first
\* execution, or a second one once the first has returned.
Execute(t) ==
    /\ phase = "sched"
    /\ \/ sched.pc = "idle"
       \/ sched.pc = "returned" /\ sched.prior = NoRun
    /\ sched' = [sched EXCEPT
           !.pc = "stage", !.thread_count = SchedulerNew(t).thread_count,
           !.stage = 1, !.task = 1, !.slots = NoSlots, !.results = <<>>,
           !.completed = {}, !.executed = <<>>, !.commits = <<>>, !.staged = <<>>,
           !.prior = IF sched.pc = "returned"
                     THEN [thread_count |-> sched.thread_count, results |-> sched.results]
                     ELSE NoRun]
    /\ UNCHANGED <<phase, semantic, epochs, builders, disk, saved, loaded, ptr, taint, query, cfgb,
                   dfgb, symtab, tracker, life>>

\* execute_stage, one turn of its loop over parallel_tasks: the task is
\* executed and its result stored under its result slot.  `executed` logs the
\* task with whether its dependencies had completed; `completed` collects
\* the tasks whose results are stored.
ExecuteTask ==
    /\ phase = "sched"
    /\ sched.pc = "stage"
    /\ sched.stage <= Len(sched.plan.stages)
    /\ sched.task <= Len(sched.plan.stages[sched.stage].parallel_tasks)
    /\ LET task == sched.plan.stages[sched.stage].parallel_tasks[sched.task]
           result == execute_task(task, sched.cpg)
       IN  sched' = [sched EXCEPT
               !.slots = SlotInsert(sched.slots, task.result_slot, result),
               !.executed = Append(sched.executed,
                                   [id |-> task.id, ready |-> is_ready(task, sched.completed)]),
               !.completed = sched.completed \cup {task.id},
               !.task = sched.task + 1]
    /\ UNCHANGED <<phase, semantic, epochs, builders, disk, saved, loaded, ptr, taint, query, cfgb,
                   dfgb, symtab, tracker, life>>

\* execute_stage after its loop, and execute's results.extend: the stored
\* results are read in commit order and appended to the results.  `commits`
\* logs which task of which stage each entry was committed for, `staged` the
\* sequence each stage returned.
CommitStage ==
    /\ phase = "sched"
    /\ sched.pc = "stage"
    /\ sched.stage <= Len(sched.plan.stages)
    /\ sched.task > Len(sched.plan.stages[sched.stage].parallel_tasks)
    /\ LET tasks_ordered == tasks_in_commit_order(sched.plan.stages[sched.stage])
           stage_results == [k \in DOMAIN tasks_ordered |->
                                SlotGet(sched.slots, tasks_ordered[k].result_slot)]
       IN  sched' = [sched EXCEPT
               !.results = sched.results \o stage_results,
               !.staged = Append(sched.staged, stage_results),
               !.commits = sched.commits \o
                              [k \in DOMAIN tasks_ordered |->
                                  [stage |-> sched.stage, id |-> tasks_ordered[k].id]],
               !.slots = NoSlots,
               !.stage = sched.stage + 1,
               !.task = 1]
    /\ UNCHANGED <<phase, semantic, epochs, builders, disk, saved, loaded, ptr, taint, query, cfgb,
                   dfgb, symtab, tracker, life>>

\* execute returns its results once the loop over the stages is done.
Return ==
    /\ phase = "sched"
    /\ sched.pc = "stage"
    /\ sched.stage > Len(sched.plan.stages)
    /\ sched' = [sched EXCEPT !.pc = "returned"]
    /\ UNCHANGED <<phase, semantic, epochs, builders, disk, saved, loaded, ptr, taint, query, cfgb,
                   dfgb, symtab, tracker, life>>

SchedNext == (\E t \in ThreadCounts : Execute(t)) \/ ExecuteTask \/ CommitStage \/ Return

SpecSched == SchedInit /\ [][SchedNext]_vars

(***************************************************************************)
(* Claims about the scheduler (under SpecSched)                            *)
(***************************************************************************)
Returned == phase = "sched" /\ sched.pc = "returned"

TaskOfRank(stage, i) ==
    CHOOSE t \in Range(stage.parallel_tasks) :
        Cardinality({u \in Range(stage.parallel_tasks) : u.id < t.id}) = i - 1

\* C4: the sequence a stage with commit_order = TaskId commits is, entry by
\* entry, the result of the work fragment of the task with the i-th smallest
\* id, whatever the insertion order and the result slots of its tasks.
C4_TaskIdCommit ==
    phase = "sched" =>
        \A s \in DOMAIN sched.staged :
            LET stage == sched.plan.stages[s]
            IN  stage.commit_order = "TaskId" =>
                    sched.staged[s] = [i \in DOMAIN stage.parallel_tasks |->
                                          execute_task(TaskOfRank(stage, i), sched.cpg)]

\* The ids of the tasks committed for stage s, in commit order.
CommittedIds(s) ==
    LET cs == SelectSeq(sched.commits, LAMBDA c : c.stage = s)
    IN  [i \in DOMAIN cs |-> cs[i].id]

\* C5: execute returns the concatenation of the stages' committed results in
\* stage order, a Stable stage commits its tasks in insertion order, and the
\* number of results is plan.task_count().
C5_StageConcatenation ==
    Returned =>
        /\ Len(sched.staged) = Len(sched.plan.stages)
        /\ sched.results = ConcatAll(sched.staged)
        /\ Len(sched.commits) = Len(sched.results)
        /\ \A i \in DOMAIN sched.commits, j \in DOMAIN sched.commits :
               i < j => sched.commits[i].stage <= sched.commits[j].stage
        /\ \A s \in DOMAIN sched.plan.stages :
               LET stage == sched.plan.stages[s]
               IN  /\ Len(sched.staged[s]) = Len(stage.parallel_tasks)
                   /\ stage.commit_order = "Stable" =>
                          CommittedIds(s) = [i \in DOMAIN stage.parallel_tasks |->
                                                stage.parallel_tasks[i].id]
        /\ Len(sched.results) = task_count(sched.plan)

\* An execution has returned whose plan has two non-empty stages, one of
\* them Stable with its tasks inserted out of id order.
C5_Witness ==
    /\ Returned
    /\ \A s \in DOMAIN sched.plan.stages : Len(sched.plan.stages[s].parallel_tasks) >= 1
    /\ \E s \in DOMAIN sched.plan.stages :
         LET stage == sched.plan.stages[s]
         IN  /\ stage.commit_order = "Stable"
             /\ Len(stage.parallel_tasks) >= 2
             /\ stage.parallel_tasks[1].id > stage.parallel_tasks[2].id

\* C6: a task is executed only after every task named in its dependencies
\* has completed.
C6_DependenciesFirst ==
    phase = "sched" => \A i \in DOMAIN sched.executed : sched.executed[i].ready

(***************************************************************************)
(* Bounded pointer analysis (analysis/pointer.rs)                          *)
(***************************************************************************)
MaxValues == 2     \* DfgValue nodes of a hand-built CPG
MaxEdges == 2      \* edges of a hand-built CPG

MAX_POINTSTO_SIZE == 100
MAX_ITERATIONS == 100

\* enum PointsToSet
Known(set) == [known |-> TRUE, set |-> set]
Unknown == [known |-> FALSE]

\* HashMap::insert on the points_to map.
PointsToInsert(points_to, value, set) ==
    [v \in DOMAIN points_to \cup {value} |-> IF v = value THEN set ELSE points_to[v]]

\* PointerAnalysis::new; `overflowed` records that a set has overflowed.
PointerAnalysisNew == [points_to |-> <<>>, completed |-> TRUE, overflowed |-> FALSE]

IsDfgValue(node) == node.kind = "DfgValue" /\ node.origin.type = "Dfg"

\* Step 1 left out: no value starts with a set.
InitialPointsToNone(cpg) == <<>>

\* analyze, step 1: an empty Known set for the value of every DfgValue node.
InitialPointsTo(cpg) ==
    [v \in {cpg.nodes[i].origin.id : i \in {j \in DOMAIN cpg.nodes : IsDfgValue(cpg.nodes[j])}}
        |-> Known({})]

\* PointerAnalysis::propagate_points_to: the analysis after the call and the
\* value returned.
propagate_points_to(a, from, to) ==
    IF from \notin DOMAIN a.points_to \/ ~a.points_to[from].known
    THEN [a |-> a, changed |-> FALSE]
    ELSE LET from_set == a.points_to[from].set
             pts == IF to \in DOMAIN a.points_to THEN a.points_to
                    ELSE PointsToInsert(a.points_to, to, Known({}))
         IN  IF pts[to].known
             THEN LET old_size == Cardinality(pts[to].set)
                      set == pts[to].set \cup from_set
                  IN  IF Cardinality(set) > MAX_POINTSTO_SIZE
                      THEN [a |-> [points_to |-> PointsToInsert(pts, to, Unknown),
                                   completed |-> FALSE, overflowed |-> TRUE],
                            changed |-> TRUE]
                      ELSE [a |-> [a EXCEPT !.points_to = PointsToInsert(pts, to, Known(set))],
                            changed |-> Cardinality(set) > old_size]
             ELSE [a |-> [a EXCEPT !.points_to = pts], changed |-> FALSE]

\* analyze, the body of the loop over the edges for one edge.
PropagateEdge(cpg, st, edge) ==
    IF /\ edge.kind = "DataFlow"
       /\ HasNode(cpg, edge.from) /\ HasNode(cpg, edge.to)
       /\ GetNode(cpg, edge.from).origin.type = "Dfg"
       /\ GetNode(cpg, edge.to).origin.type = "Dfg"
    THEN LET r == propagate_points_to(st.a, GetNode(cpg, edge.from).origin.id,
                                      GetNode(cpg, edge.to).origin.id)
         IN  [a |-> r.a, changed |-> st.changed \/ r.changed]
    ELSE st

\* The cap test a single pass already meets.
CapExhaustedByAnyPass(iterations) == iterations >= 1

\* analyze, after the loop: iterations >= MAX_ITERATIONS.
CapExhausted(iterations) == iterations >= MAX_ITERATIONS

\* PointerAnalysis::points_to and is_complete
points_to(a, value) == a.points_to[value]
is_complete(a) == a.completed

\* Hand-built CPGs as in test_pointer_analysis_simple: DfgValue nodes 1..n,
\* node i holding value i, and up to MaxEdges edges between them (node n + 1
\* does not exist).
EdgeChoices(n) == [kind : {"DataFlow", "ControlFlow"}, from : 1..n, to : 1..(n + 1)]

HandBuiltCPG(n, es) ==
    [nodes |-> [i \in 1..n |-> CPGNode(i, "DfgValue", OriginRef("Dfg", i),
                                       ByteRange(10 * (i - 1), 10 * i), NoLabel)],
     edges |-> [i \in DOMAIN es |-> CPGEdge(i, es[i].kind, es[i].from, es[i].to)]]

\* k DfgValue nodes, each with a DataFlow edge into the sink, node k + 1.
StarCPG(k) ==
    HandBuiltCPG(k + 1, [i \in 1..k |-> [kind |-> "DataFlow", from |-> i, to |-> k + 1]])

\* CPGs fused by CPGBuilder::build; the second has a DataFlow edge.
ChainSource == <<2>>
BuiltCPGs == {FusedCPG(QuerySource), FusedCPG(ChainSource)}

PtrStart(cpg) ==
    [cpg |-> cpg, pc |-> "start", a |-> PointerAnalysisNew, changed |-> FALSE,
     iterations |-> 0, edge |-> 0]

PtrInit ==
    /\ phase = "ptr"
    /\ semantic = [none |-> TRUE]
    /\ epochs = [k \in EpochSlots |-> NoEpoch]
    /\ builders = [k \in EpochSlots |-> NoBuilder]
    /\ disk = NoFile
    /\ saved = NoCPG
    /\ loaded = NotLoaded
    /\ sched = IdleSched
    /\ \/ \E n \in 0..MaxValues, k \in 0..MaxEdges :
            \E es \in [1..k -> EdgeChoices(n)] : ptr = PtrStart(HandBuiltCPG(n, es))
       \/ ptr = PtrStart(StarCPG(MAX_POINTSTO_SIZE + 1))
       \/ \E cpg \in BuiltCPGs : ptr = PtrStart(cpg)
    /\ taint = IdleTaint
    /\ query = IdleQuery
    /\ cfgb = IdleCfgb
    /\ dfgb = IdleDfgb
    /\ symtab = IdleSymtab
    /\ tracker = IdleTracker
    /\ life = IdleLife

\* PointerAnalysis::analyze up to its loop: new, step 1, changed = true,
\* iterations = 0.
AnalyzeInit ==
    /\ phase = "ptr"
    /\ ptr.pc = "start"
    /\ ptr' = [ptr EXCEPT !.pc = "loop",
                          !.a = [PointerAnalysisNew EXCEPT
                                    !.points_to = InitialPointsTo(ptr.cpg)],
                          !.changed = TRUE,
                          !.iterations = 0,
                          !.edge = 0]
    /\ UNCHANGED <<phase, semantic, epochs, builders, disk, saved, loaded, sched, taint, query, cfgb,
                   dfgb, symtab, tracker, life>>

\* `while changed && iterations < MAX_ITERATIONS` is entered: changed =
\* false, iterations += 1, and the loop over the edge sequence starts.
BeginPass ==
    /\ phase = "ptr"
    /\ ptr.pc = "loop"
    /\ ptr.changed /\ ptr.iterations < MAX_ITERATIONS
    /\ ptr' = [ptr EXCEPT !.pc = "pass", !.changed = FALSE,
                          !.iterations = ptr.iterations + 1, !.edge = 1]
    /\ UNCHANGED <<phase, semantic, epochs, builders, disk, saved, loaded, sched, taint, query, cfgb,
                   dfgb, symtab, tracker, life>>

\* One turn of `for edge in &cpg.edges`.
PropagateStep ==
    /\ phase = "ptr"
    /\ ptr.pc = "pass"
    /\ ptr.edge <= Len(ptr.cpg.edges)
    /\ LET r == PropagateEdge(ptr.cpg, [a |-> ptr.a, changed |-> ptr.changed],
                              ptr.cpg.edges[ptr.edge])
       IN  ptr' = [ptr EXCEPT !.a = r.a, !.changed = r.changed, !.edge = ptr.edge + 1]
    /\ UNCHANGED <<phase, semantic, epochs, builders, disk, saved, loaded, sched, taint, query, cfgb,
                   dfgb, symtab, tracker, life>>

\* The loop over the edges is done: back to the test of the while loop.
EndPass ==
    /\ phase = "ptr"
    /\ ptr.pc = "pass"
    /\ ptr.edge > Len(ptr.cpg.edges)
    /\ ptr' = [ptr EXCEPT !.pc = "loop"]
    /\ UNCHANGED <<phase, semantic, epochs, builders, disk, saved, loaded, sched, taint, query, cfgb,
                   dfgb, symtab, tracker, life>>

\* The loop is left: the cap test, and analyze returns the analysis.
AnalyzeReturn ==
    /\ phase = "ptr"
    /\ ptr.pc = "loop"
    /\ ~(ptr.changed /\ ptr.iterations < MAX_ITERATIONS)
    /\ ptr' = [ptr EXCEPT !.pc = "returned",
                          !.a.completed = IF CapExhausted(ptr.iterations) THEN FALSE ELSE @]
    /\ UNCHANGED <<phase, semantic, epochs, builders, disk, saved, loaded, sched, taint, query, cfgb,
                   dfgb, symtab, tracker, life>>

PtrNext == AnalyzeInit \/ BeginPass \/ PropagateStep \/ EndPass \/ AnalyzeReturn

\* analyze is one call that runs to its end: its steps are taken as long as
\* one is possible.
SpecPtr == PtrInit /\ [][PtrNext]_vars /\ WF_vars(PtrNext)

(***************************************************************************)
(* Claims about the pointer analysis (under SpecPtr)                       *)
(***************************************************************************)
PtrReturned == phase = "ptr" /\ ptr.pc = "returned"

\* The DfgValue nodes of a CPG.
DfgValueNodes(cpg) == {cpg.nodes[i] : i \in {j \in DOMAIN cpg.nodes : IsDfgValue(cpg.nodes[j])}}

\* The DataFlow edges of a CPG that run between two DfgValue nodes.
DataFlowEdges(cpg) ==
    {cpg.edges[i] : i \in {j \in DOMAIN cpg.edges :
        /\ cpg.edges[j].kind = "DataFlow"
        /\ HasNode(cpg, cpg.edges[j].from) /\ IsDfgValue(GetNode(cpg, cpg.edges[j].from))
        /\ HasNode(cpg, cpg.edges[j].to) /\ IsDfgValue(GetNode(cpg, cpg.edges[j].to))}}

\* The values flowing into the node `sink` over DataFlow edges.
ValuesInto(cpg, sink) ==
    {GetNode(cpg, e.from).origin.id : e \in {d \in DataFlowEdges(cpg) : d.to = sink.id}}

\* C8: when more than MAX_POINTSTO_SIZE distinct DfgValue nodes each have a
\* DataFlow edge into one sink, analyze ends with pts(sink) = Unknown and
\* is_complete() = false.
C8_OverflowToUnknown ==
    PtrReturned =>
        \A sink \in DfgValueNodes(ptr.cpg) :
            Cardinality(ValuesInto(ptr.cpg, sink)) > MAX_POINTSTO_SIZE =>
                /\ sink.origin.id \in DOMAIN ptr.a.points_to
                /\ points_to(ptr.a, sink.origin.id) = Unknown
                /\ ~is_complete(ptr.a)

\* pts(y) is a superset of pts(x); Unknown stands for every value.
PtsSuperset(y, x) == ~y.known \/ (x.known /\ x.set \subseteq y.set)

\* C9: when analyze returns with is_complete() = true, every DfgValue node's
\* value has a points-to set and, for every DataFlow edge x -> y between
\* DfgValue nodes, pts(y) is a superset of pts(x).
C9_FixedPoint ==
    (PtrReturned /\ is_complete(ptr.a)) =>
        /\ \A node \in DfgValueNodes(ptr.cpg) : node.origin.id \in DOMAIN ptr.a.points_to
        /\ \A e \in DataFlowEdges(ptr.cpg) :
               PtsSuperset(points_to(ptr.a, GetNode(ptr.cpg, e.to).origin.id),
                           points_to(ptr.a, GetNode(ptr.cpg, e.from).origin.id))

\* analyze has returned complete on a CPG whose DataFlow edges form a cycle
\* through two DfgValue nodes.
C9_Witness ==
    /\ PtrReturned /\ is_complete(ptr.a)
    /\ \E e1 \in DataFlowEdges(ptr.cpg), e2 \in DataFlowEdges(ptr.cpg) :
         e1.from # e1.to /\ e2.from = e1.to /\ e2.to = e1.from

\* C10: analyze terminates after at most MAX_ITERATIONS passes over the edge
\* sequence, and is_complete() is true exactly when the cap was not exhausted
\* and no points-to set overflowed.
C10_BoundedTermination ==
    /\ [](phase = "ptr" =>
            /\ ptr.iterations <= MAX_ITERATIONS
            /\ ptr.pc = "returned" =>
                   (is_complete(ptr.a) <=>
                        (ptr.iterations < MAX_ITERATIONS /\ ~ptr.a.overflowed)))
    /\ <>PtrReturned

\* analyze has returned, after at least one pass, on a CPG with a DataFlow
\* edge from a DfgValue node to itself.
C10_Witness ==
    /\ PtrReturned /\ ptr.iterations >= 1
    /\ \E e \in DataFlowEdges(ptr.cpg) : e.from = e.to

(***************************************************************************)
(* Taint analysis (analysis/taint.rs)                                      *)
(***************************************************************************)
MAX_TAINT_DEPTH == 50

\* enum TaintSource, enum TaintSink, struct TaintPath
TaintSource(type, node) == [type |-> type, node |-> node]
TaintSink(type, node) == [type |-> type, node |-> node]
TaintPath(source, path, sink) == [source |-> source, path |-> path, sink |-> sink]

\* TaintAnalysis::new
TaintAnalysisNew == [paths |-> <<>>, tainted |-> {}]

\* A queue entry of propagate_from_source.
QueueEntry(node, path, depth) == [node |-> node, path |-> path, depth |-> depth]

\* An edge is followed whatever its kind.
FollowsAnyEdge(edge, current) == edge.from = current

\* propagate_from_source: the edges followed from the current node.
FollowsEdge(edge, current) == edge.from = current /\ edge.kind = "DataFlow"

\* Every edge followed enqueues its target.
ShouldVisitAlways(visited, to, next_depth) == TRUE

\* propagate_from_source: visit only if not seen or found by a shorter path.
ShouldVisit(visited, to, next_depth) ==
    to \notin DOMAIN visited \/ visited[to] > next_depth

\* HashMap::insert on the visited map.
VisitedInsert(visited, node, depth) ==
    [n \in DOMAIN visited \cup {node} |-> IF n = node THEN depth ELSE visited[n]]

\* propagate_from_source: the body of the loop over the edges, for an edge
\* that is followed.
ExpandEdge(st, edge, path, depth) ==
    IF ShouldVisit(st.visited, edge.to, depth + 1)
    THEN [visited |-> VisitedInsert(st.visited, edge.to, depth + 1),
          queue |-> Append(st.queue, QueueEntry(edge.to, Append(path, edge.to), depth + 1))]
    ELSE st

\* propagate_from_source: the paths pushed when `current` is visited, one per
\* matching sink in the order of the sinks.
SinkPaths(source, path, current, sinks) ==
    LET matching == SelectSeq(sinks, LAMBDA sink : sink.node = current)
    IN  [i \in DOMAIN matching |-> TaintPath(source, path, matching[i])]

\* propagate_from_source: one turn of the loop over the queue; `visits` logs
\* the entries taken from the queue.
VisitEntry(t) ==
    LET entry == Head(t.queue)
        rest == Tail(t.queue)
    IN  IF entry.depth >= MAX_TAINT_DEPTH
        THEN [t EXCEPT !.queue = rest, !.visits = Append(@, entry.node)]
        ELSE LET out == SelectSeq(t.cpg.edges, LAMBDA e : FollowsEdge(e, entry.node))
                 st == FoldLeft(LAMBDA a, e : ExpandEdge(a, e, entry.path, entry.depth),
                                [visited |-> t.visited, queue |-> rest], out)
             IN  [t EXCEPT !.queue = st.queue,
                           !.visited = st.visited,
                           !.visits = Append(@, entry.node),
                           !.analysis.tainted = @ \cup {entry.node},
                           !.analysis.paths =
                               @ \o SinkPaths(t.sources[t.source], entry.path,
                                              entry.node, t.sinks)]

\* k DfgValue nodes in a chain of DataFlow edges 1 -> 2 -> ... -> k.
ChainCPG(k) ==
    HandBuiltCPG(k, [i \in 1..(k - 1) |-> [kind |-> "DataFlow", from |-> i, to |-> i + 1]])

TaintStart(cpg, sources, sinks) ==
    [cpg |-> cpg, sources |-> sources, sinks |-> sinks, pc |-> "sources", source |-> 1,
     queue |-> <<>>, visited |-> <<>>, visits |-> <<>>, analysis |-> TaintAnalysisNew]

TaintInit ==
    /\ phase = "taint"
    /\ semantic = [none |-> TRUE]
    /\ epochs = [k \in EpochSlots |-> NoEpoch]
    /\ builders = [k \in EpochSlots |-> NoBuilder]
    /\ disk = NoFile
    /\ saved = NoCPG
    /\ loaded = NotLoaded
    /\ sched = IdleSched
    /\ ptr = IdlePtr
    /\ query = IdleQuery
    /\ cfgb = IdleCfgb
    /\ dfgb = IdleDfgb
    /\ symtab = IdleSymtab
    /\ tracker = IdleTracker
    /\ life = IdleLife
    /\ \/ \E n \in 1..MaxValues, k \in 0..MaxEdges :
            \E es \in [1..k -> EdgeChoices(n)], s \in 0..n, sink \in 1..n :
               taint = TaintStart(HandBuiltCPG(n, es),
                                  IF s = 0 THEN <<TaintSource("Parameter", 1),
                                                  TaintSource("ExternalInput", n)>>
                                  ELSE <<TaintSource("Parameter", s)>>,
                                  <<TaintSink("FunctionCall", sink), TaintSink("Return", 1)>>)
       \/ \E extra \in 0..2, sink \in {MAX_TAINT_DEPTH, MAX_TAINT_DEPTH + 1} :
            taint = TaintStart(ChainCPG(MAX_TAINT_DEPTH + extra),
                               <<TaintSource("Parameter", 1)>>,
                               <<TaintSink("Return", sink)>>)

\* TaintAnalysis::analyze, one turn of the loop over the sources, up to the
\* loop over the queue: the queue and the visited map start with the source.
BeginSource ==
    /\ phase = "taint"
    /\ taint.pc = "sources"
    /\ taint.source <= Len(taint.sources)
    /\ LET start == taint.sources[taint.source].node
       IN  taint' = [taint EXCEPT !.pc = "bfs",
                                  !.queue = <<QueueEntry(start, <<start>>, 0)>>,
                                  !.visited = VisitedInsert(<<>>, start, 0),
                                  !.visits = <<>>]
    /\ UNCHANGED <<phase, semantic, epochs, builders, disk, saved, loaded, sched, ptr,
                   query, cfgb,
                   dfgb, symtab, tracker, life>>

\* One turn of `while let Some(..) = queue.pop_front()`.
TaintVisit ==
    /\ phase = "taint"
    /\ taint.pc = "bfs"
    /\ taint.queue # <<>>
    /\ taint' = VisitEntry(taint)
    /\ UNCHANGED <<phase, semantic, epochs, builders, disk, saved, loaded, sched, ptr,
                   query, cfgb,
                   dfgb, symtab, tracker, life>>

\* The queue is empty: propagate_from_source returns, on to the next source.
EndSource ==
    /\ phase = "taint"
    /\ taint.pc = "bfs"
    /\ taint.queue = <<>>
    /\ taint' = [taint EXCEPT !.pc = "sources", !.source = taint.source + 1]
    /\ UNCHANGED <<phase, semantic, epochs, builders, disk, saved, loaded, sched, ptr,
                   query, cfgb,
                   dfgb, symtab, tracker, life>>

\* The loop over the sources is done: analyze returns the analysis.
TaintReturn ==
    /\ phase = "taint"
    /\ taint.pc = "sources"
    /\ taint.source > Len(taint.sources)
    /\ taint' = [taint EXCEPT !.pc = "returned"]
    /\ UNCHANGED <<phase, semantic, epochs, builders, disk, saved, loaded, sched, ptr,
                   query, cfgb,
                   dfgb, symtab, tracker, life>>

TaintNext == BeginSource \/ TaintVisit \/ EndSource \/ TaintReturn

SpecTaint == TaintInit /\ [][TaintNext]_vars

\* TaintAnalysis::paths and is_tainted
paths(analysis) == analysis.paths
is_tainted(analysis, node) == node \in analysis.tainted

(***************************************************************************)
(* Claims about the taint analysis                                         *)
(***************************************************************************)
TaintReturned == phase = "taint" /\ taint.pc = "returned"

\* The ids the edges of a CPG of the given kinds lead to from a set of ids.
Successors(cpg, kinds, S) ==
    {cpg.edges[i].to : i \in {j \in DOMAIN cpg.edges :
                                 cpg.edges[j].from \in S /\ cpg.edges[j].kind \in kinds}}

\* The ids at most `hops` edges of the given kinds away from the ids in S.
RECURSIVE WithinHops(_, _, _, _)
WithinHops(cpg, kinds, S, hops) ==
    IF hops = 0
    THEN S
    ELSE LET T == S \cup Successors(cpg, kinds, S)
         IN  IF T = S THEN S ELSE WithinHops(cpg, kinds, T, hops - 1)

\* The ids a CPG mentions: its nodes and the ends of its edges.
MentionedIds(cpg) ==
    {cpg.nodes[i].id : i \in DOMAIN cpg.nodes}
        \cup {cpg.edges[i].from : i \in DOMAIN cpg.edges}
        \cup {cpg.edges[i].to : i \in DOMAIN cpg.edges}

SourceNodes(sources) == {sources[i].node : i \in DOMAIN sources}

\* C11: once analyze has returned, a node is tainted exactly when it lies at
\* most MAX_TAINT_DEPTH (50) DataFlow hops from the node of some source, the
\* depths 0 through 50 included, and a sink on such a node has a path.
C11_TaintDepth ==
    TaintReturned =>
        LET near == WithinHops(taint.cpg, {"DataFlow"}, SourceNodes(taint.sources),
                               MAX_TAINT_DEPTH)
        IN  /\ \A n \in MentionedIds(taint.cpg) \cup SourceNodes(taint.sources) :
                   is_tainted(taint.analysis, n) <=> n \in near
            /\ \A i \in DOMAIN taint.sinks :
                   taint.sinks[i].node \in near =>
                       \E j \in DOMAIN paths(taint.analysis) :
                           paths(taint.analysis)[j].sink = taint.sinks[i]

\* An edge of the given kind joins a to b in that direction.
JoinedBy(cpg, kind, a, b) ==
    \E i \in DOMAIN cpg.edges :
        cpg.edges[i].kind = kind /\ cpg.edges[i].from = a /\ cpg.edges[i].to = b

Traceable(cpg, p) ==
    /\ Len(p.path) >= 1
    /\ p.path[1] = p.source.node
    /\ p.path[Len(p.path)] = p.sink.node
    /\ \A i \in 1..(Len(p.path) - 1) : JoinedBy(cpg, "DataFlow", p.path[i], p.path[i + 1])
    /\ Len(p.path) - 1 <= MAX_TAINT_DEPTH

\* C12: every TaintPath the analysis holds is traceable: its path begins at
\* the node of its source, ends at the node of its sink, each consecutive
\* pair of path nodes is joined by a DataFlow edge of the CPG in that
\* direction, and the path has at most MAX_TAINT_DEPTH (50) edges; the source
\* and the sink are among those given to analyze.
C12_PathsTraceable ==
    phase = "taint" =>
        \A j \in DOMAIN paths(taint.analysis) :
            LET p == paths(taint.analysis)[j]
            IN  /\ Traceable(taint.cpg, p)
                /\ p.source \in Range(taint.sources)
                /\ p.sink \in Range(taint.sinks)

\* analyze has returned a path with at least one edge from a CPG that also
\* has a ControlFlow edge leaving a tainted node.
C12_Witness ==
    /\ TaintReturned
    /\ \E j \in DOMAIN paths(taint.analysis) : Len(paths(taint.analysis)[j].path) >= 2
    /\ \E i \in DOMAIN taint.cpg.edges :
           /\ taint.cpg.edges[i].kind = "ControlFlow"
           /\ is_tainted(taint.analysis, taint.cpg.edges[i].from)

(***************************************************************************)
(* Query primitives on a CPG (query/primitives.rs)                         *)
(***************************************************************************)
MAX_REACHABILITY_DEPTH == 100

\* test_query_determinism runs the same query three times.
Invocations == 3

Min(a, b) == IF a <= b THEN a ELSE b

\* A limit that leaves out the cap.
DepthLimitUncapped(max_depth) == max_depth

\* reachable_within: max_depth.min(MAX_REACHABILITY_DEPTH)
depth_limit(max_depth) == Min(max_depth, MAX_REACHABILITY_DEPTH)

\* reachable_within: the body of the loop over the edges leaving `current`.
ReachExpand(st, edge, depth) ==
    IF edge.to \notin st.visited
    THEN [visited |-> st.visited \cup {edge.to},
          queue |-> Append(st.queue, [node |-> edge.to, depth |-> depth + 1])]
    ELSE st

\* reachable_within: one turn of the loop over the queue.
ReachVisitEntry(q) ==
    LET entry == Head(q.queue)
        popped == [visited |-> q.visited, queue |-> Tail(q.queue)]
        st == IF entry.depth < depth_limit(q.max_depth)
              THEN FoldLeft(LAMBDA a, e : ReachExpand(a, e, entry.depth), popped,
                            get_edges_from(q.cpg, entry.node))
              ELSE popped
    IN  [q EXCEPT !.reachable = Append(@, entry.node),
                  !.queue = st.queue,
                  !.visited = st.visited]

\* A call of a query primitive on a CPG, about to be made.
QueryCall(cpg, op, kind, from, max_depth) ==
    [cpg |-> cpg, op |-> op, kind |-> kind, from |-> from, max_depth |-> max_depth,
     pc |-> "call", results |-> <<>>, queue |-> <<>>, visited |-> {}, reachable |-> <<>>]

\* The CPGs queried: hand-built ones (duplicate edges, cycles, self loops,
\* dangling targets, all edges DataFlow or the first ControlFlow) and the CPGs
\* fused by CPGBuilder::build.
QueryEdgeEnds(n) == [from : 1..n, to : 1..(n + 1)]

QueryEdges(ends, mixed) ==
    [i \in DOMAIN ends |->
        [kind |-> IF mixed /\ i = 1 THEN "ControlFlow" ELSE "DataFlow",
         from |-> ends[i].from, to |-> ends[i].to]]

HandBuiltCPGs ==
    UNION {{HandBuiltCPG(n, QueryEdges(ends, mixed)) :
                ends \in [1..k -> QueryEdgeEnds(n)], mixed \in BOOLEAN} :
               n \in 1..MaxValues, k \in 0..MaxEdges}

QueryInit ==
    /\ phase = "query"
    /\ semantic = [none |-> TRUE]
    /\ epochs = [k \in EpochSlots |-> NoEpoch]
    /\ builders = [k \in EpochSlots |-> NoBuilder]
    /\ disk = NoFile
    /\ saved = NoCPG
    /\ loaded = NotLoaded
    /\ sched = IdleSched
    /\ ptr = IdlePtr
    /\ taint = IdleTaint
    /\ cfgb = IdleCfgb
    /\ dfgb = IdleDfgb
    /\ symtab = IdleSymtab
    /\ tracker = IdleTracker
    /\ life = IdleLife
    /\ \/ \E cpg \in BuiltCPGs \cup {HandBuiltCPG(MaxValues, <<>>)}, kind \in CPGNodeKinds :
            query = QueryCall(cpg, "find_nodes", kind, 0, 0)
       \/ \E cpg \in BuiltCPGs, from \in 1..3, kind \in {"ControlFlow", "DataFlow", "Defines"} :
            query = QueryCall(cpg, "follow_edge", kind, from, 0)
       \/ \E cpg \in HandBuiltCPGs, kind \in {"ControlFlow", "DataFlow"} :
            query = QueryCall(cpg, "follow_edge", kind, 1, 0)
       \/ \E cpg \in HandBuiltCPGs, max_depth \in 0..MaxEdges :
            query = QueryCall(cpg, "reachable_within", NoKind, 1, max_depth)
       \/ \E extra \in 1..2, less \in 0..2 :
            query = QueryCall(ChainCPG(MAX_REACHABILITY_DEPTH + extra), "reachable_within",
                              NoKind, 1, MAX_REACHABILITY_DEPTH + 1 - less)

\* One call of find_nodes.
FindNodes ==
    /\ phase = "query"
    /\ query.pc = "call"
    /\ query.op = "find_nodes"
    /\ Len(query.results) < Invocations
    /\ query' = [query EXCEPT !.results = Append(@, find_nodes(query.cpg, query.kind))]
    /\ UNCHANGED <<phase, semantic, epochs, builders, disk, saved, loaded, sched, ptr,
                   taint, cfgb,
                   dfgb, symtab, tracker, life>>

\* One call of follow_edge.
FollowEdge ==
    /\ phase = "query"
    /\ query.pc = "call"
    /\ query.op = "follow_edge"
    /\ Len(query.results) < Invocations
    /\ query' = [query EXCEPT
                    !.results = Append(@, follow_edge(query.cpg, query.from, query.kind))]
    /\ UNCHANGED <<phase, semantic, epochs, builders, disk, saved, loaded, sched, ptr,
                   taint, cfgb,
                   dfgb, symtab, tracker, life>>

\* reachable_within up to its loop: the queue and the visited set hold `from`.
ReachBegin ==
    /\ phase = "query"
    /\ query.pc = "call"
    /\ query.op = "reachable_within"
    /\ query.results = <<>>
    /\ query' = [query EXCEPT !.pc = "bfs",
                              !.queue = <<[node |-> query.from, depth |-> 0]>>,
                              !.visited = {query.from},
                              !.reachable = <<>>]
    /\ UNCHANGED <<phase, semantic, epochs, builders, disk, saved, loaded, sched, ptr,
                   taint, cfgb,
                   dfgb, symtab, tracker, life>>

\* One turn of `while let Some(..) = queue.pop_front()`.
ReachVisit ==
    /\ phase = "query"
    /\ query.pc = "bfs"
    /\ query.queue # <<>>
    /\ query' = ReachVisitEntry(query)
    /\ UNCHANGED <<phase, semantic, epochs, builders, disk, saved, loaded, sched, ptr,
                   taint, cfgb,
                   dfgb, symtab, tracker, life>>

\* The queue is empty: reachable_within returns `reachable`.
ReachReturn ==
    /\ phase = "query"
    /\ query.pc = "bfs"
    /\ query.queue = <<>>
    /\ query' = [query EXCEPT !.pc = "call", !.results = Append(@, query.reachable)]
    /\ UNCHANGED <<phase, semantic, epochs, builders, disk, saved, loaded, sched, ptr,
                   taint, cfgb,
                   dfgb, symtab, tracker, life>>

QueryNext == FindNodes \/ FollowEdge \/ ReachBegin \/ ReachVisit \/ ReachReturn

SpecQuery == QueryInit /\ [][QueryNext]_vars /\ WF_vars(QueryNext)

(***************************************************************************)
(* Claims about the query primitives                                       *)
(***************************************************************************)
ReachCalled == phase = "query" /\ query.op = "reachable_within"
ReachReturned == ReachCalled /\ query.results # <<>>

NoDuplicates(r) == \A i, j \in DOMAIN r : i # j => r[i] # r[j]

MinOf(S) == CHOOSE x \in S : \A y \in S : x <= y

\* Where the node that first saw r[i] stands in r, and the position in the
\* CPG's edges of the first edge from that node to r[i].
SeenFrom(cpg, r, i) == MinOf({k \in DOMAIN r : \E j \in DOMAIN cpg.edges :
                                  cpg.edges[j].from = r[k] /\ cpg.edges[j].to = r[i]})
SeenBy(cpg, r, i) == MinOf({j \in DOMAIN cpg.edges :
                                cpg.edges[j].from = r[SeenFrom(cpg, r, i)]
                                    /\ cpg.edges[j].to = r[i]})

\* r lists nodes in the order a breadth-first search first sees them, the
\* neighbours of a node taken in the order of the CPG's edges.
FirstSeenOrder(cpg, r) ==
    \A i \in 2..(Len(r) - 1) :
        \/ SeenFrom(cpg, r, i) < SeenFrom(cpg, r, i + 1)
        \/ /\ SeenFrom(cpg, r, i) = SeenFrom(cpg, r, i + 1)
           /\ SeenBy(cpg, r, i) < SeenBy(cpg, r, i + 1)

ReachCorrect(cpg, from, max_depth, r) ==
    /\ NoDuplicates(r)
    /\ Len(r) >= 1 /\ r[1] = from
    /\ Range(r) = WithinHops(cpg, CPGEdgeKinds, {from}, Min(max_depth, MAX_REACHABILITY_DEPTH))
    /\ FirstSeenOrder(cpg, r)

\* C13: reachable_within(from, d) returns, without duplicates and beginning
\* with `from`, exactly the nodes at most min(d, 100) outgoing edges of any
\* kind away from `from`, in breadth-first first-seen order with neighbours
\* in edge insertion order, and every call returns, cyclic graphs included.
C13_ReachableWithin ==
    /\ [](ReachReturned =>
              ReachCorrect(query.cpg, query.from, query.max_depth, query.results[1]))
    /\ (ReachCalled ~> ReachReturned)

\* reachable_within has returned from a chain longer than the cap, called with
\* a depth above the cap.
C13_Witness ==
    /\ ReachReturned
    /\ query.max_depth > MAX_REACHABILITY_DEPTH
    /\ Len(query.cpg.nodes) > MAX_REACHABILITY_DEPTH + 1
    /\ Len(query.results[1]) = MAX_REACHABILITY_DEPTH + 1

\* reachable_within has returned from a graph with a cycle through `from`.
C13_WitnessCycle ==
    /\ ReachReturned
    /\ query.max_depth >= 2
    /\ \E i, j \in DOMAIN query.cpg.edges :
           /\ query.cpg.edges[i].from = query.from
           /\ query.cpg.edges[j].to = query.from
           /\ query.cpg.edges[i].to = query.cpg.edges[j].from
           /\ query.cpg.edges[i].to # query.from

\* The j-th smallest member of a set of positions.
NthOf(I, j) == CHOOSE k \in I : Cardinality({i \in I : i <= k}) = j

\* r lists vals[i] for the positions i in I, one entry per position, in the
\* order of the positions.
ListsInOrder(r, vals, I) ==
    /\ Len(r) = Cardinality(I)
    /\ \A j \in DOMAIN r : r[j] = vals[NthOf(I, j)]

FindCorrect(cpg, kind, r) ==
    ListsInOrder(r, [i \in DOMAIN cpg.nodes |-> cpg.nodes[i].id],
                 {i \in DOMAIN cpg.nodes : cpg.nodes[i].kind = kind})

FollowCorrect(cpg, from, kind, r) ==
    ListsInOrder(r, [i \in DOMAIN cpg.edges |-> cpg.edges[i].to],
                 {i \in DOMAIN cpg.edges : cpg.edges[i].from = from /\ cpg.edges[i].kind = kind})

\* C14: find_nodes(kind) returns the ids of all nodes of that kind in node
\* insertion order, follow_edge(from, kind) returns the targets of all edges
\* of that kind leaving `from` in edge insertion order, one entry per edge,
\* and every invocation on the same CPG returns the same sequence.
C14_FindFollowOrder ==
    phase = "query" =>
        /\ query.op = "find_nodes" =>
               \A i \in DOMAIN query.results :
                   FindCorrect(query.cpg, query.kind, query.results[i])
        /\ query.op = "follow_edge" =>
               \A i \in DOMAIN query.results :
                   FollowCorrect(query.cpg, query.from, query.kind, query.results[i])
        /\ query.op \in {"find_nodes", "follow_edge"} =>
               \A i, j \in DOMAIN query.results : query.results[i] = query.results[j]

\* follow_edge has been invoked three times on a CPG with two edges of the
\* same kind from `from` to the same target.
C14_Witness ==
    /\ phase = "query"
    /\ query.op = "follow_edge"
    /\ Len(query.results) = Invocations
    /\ Len(query.results[1]) >= 2
    /\ query.results[1][1] = query.results[1][2]

\* find_nodes has been invoked three times on a fused CPG and found two nodes.
C14_WitnessFind ==
    /\ phase = "query"
    /\ query.op = "find_nodes"
    /\ Len(query.results) = Invocations
    /\ Len(query.results[1]) >= 2
    /\ Len(query.results[1]) < Len(query.cpg.nodes)

(***************************************************************************)
(* Parse trees (tree-sitter nodes of the Rust grammar): a node has a kind, *)
(* its children in order, the positions of its named fields, and a byte    *)
(* range.  A leaf is one token of the source and carries the token's text; *)
(* positions count tokens.  In the sources built here tokens are separated *)
(* by one space, except that ";" follows its predecessor directly.         *)
(***************************************************************************)
NoNode == [kind |-> "None", children |-> <<>>, fields |-> <<>>, width |-> 0,
           range |-> ByteRange(0, 0), token |-> ""]

Widths(children) == SumSeq([i \in DOMAIN children |-> children[i].width])

\* A named leaf with its text, e.g. an identifier or a literal.
Token(kind, text) ==
    [kind |-> kind, children |-> <<>>, fields |-> <<>>, width |-> 1, range |-> ByteRange(0, 0),
     token |-> text]

\* An anonymous leaf (keyword or punctuation): its text is its kind.
Leaf(kind) == Token(kind, kind)

Inner(kind, children, fields) ==
    [kind |-> kind, children |-> children, fields |-> fields, width |-> Widths(children),
     range |-> ByteRange(0, 0), token |-> ""]

\* Node::start_byte / end_byte: the ranges of a tree laid out from `start`.
RECURSIVE Place(_, _)
Place(node, start) ==
    [node EXCEPT
        !.range = ByteRange(start, start + node.width),
        !.children = [i \in DOMAIN node.children |->
                         Place(node.children[i],
                               start + Widths(SubSeq(node.children, 1, i - 1)))]]

\* Node::child_by_field_name
child_by_field_name(node, name) ==
    IF name \in DOMAIN node.fields THEN node.children[node.fields[name]] ELSE NoNode

Block(stmts) == Inner("block", <<Leaf("{")>> \o stmts \o <<Leaf("}")>>, <<>>)
\* `let <name> = 42;`
Let(name) ==
    Inner("let_declaration",
          <<Leaf("let"), Token("identifier", name), Leaf("="), Token("integer_literal", "42"),
            Leaf(";")>>,
          [pattern |-> 2, value |-> 4])
LetDeclaration == Let("x")
ExpressionStatement(expr) == Inner("expression_statement", <<expr, Leaf(";")>>, <<>>)
BlockLikeStatement(expr) == Inner("expression_statement", <<expr>>, <<>>)
BreakStatement == ExpressionStatement(Leaf("break_expression"))
CallExpression == Leaf("call_expression")
ElseClause(arm) == Inner("else_clause", <<Leaf("else"), arm>>, <<>>)
IfExpression(consequence) ==
    Inner("if_expression", <<Leaf("if"), Leaf("boolean_literal"), consequence>>,
          [condition |-> 2, consequence |-> 3])
IfElseExpression(consequence, alternative) ==
    Inner("if_expression", <<Leaf("if"), Leaf("boolean_literal"), consequence, alternative>>,
          [condition |-> 2, consequence |-> 3, alternative |-> 4])
WhileExpression(block) ==
    Inner("while_expression", <<Leaf("while"), Leaf("boolean_literal"), block>>,
          [condition |-> 2, body |-> 3])
LoopExpression(block) == Inner("loop_expression", <<Leaf("loop"), block>>, [body |-> 2])
MatchArm(value) ==
    Inner("match_arm", <<Leaf("match_pattern"), Leaf("=>"), value, Leaf(",")>>,
          [pattern |-> 1, value |-> 3])
MatchExpression(values) ==
    Inner("match_expression",
          <<Leaf("match"), Leaf("identifier"),
            Inner("match_block",
                  <<Leaf("{")>> \o [i \in DOMAIN values |-> MatchArm(values[i])] \o <<Leaf("}")>>,
                  <<>>)>>,
          [value |-> 2, body |-> 3])
\* `fn <name>() <block>`
FunctionNamed(name, block) ==
    Inner("function_item",
          <<Leaf("fn"), Token("identifier", name),
            Inner("parameters", <<Leaf("("), Leaf(")")>>, <<>>), block>>,
          [name |-> 2, parameters |-> 3, body |-> 4])
FunctionItem(block) == FunctionNamed("test", block)
SourceFile(items) == Place(Inner("source_file", items, <<>>), 0)

\* The source text a tree was parsed from: the texts of its leaves in order.
RECURSIVE SourceOf(_)
SourceOf(node) ==
    IF node.children = <<>>
    THEN <<node.token>>
    ELSE ConcatAll([i \in DOMAIN node.children |-> SourceOf(node.children[i])])

\* The number of characters of a text.
RECURSIVE CharsOf(_)
CharsOf(text) ==
    IF text = <<>> THEN 0
    ELSE Len(Head(text)) + CharsOf(Tail(text))
         + (IF Len(text) > 1 /\ text[2] # ";" THEN 1 ELSE 0)

\* chars().take(n): the text itself when it fits, else its first n characters.
Take(text, n) == IF CharsOf(text) <= n THEN text ELSE [prefix_of |-> text, chars |-> n]

(***************************************************************************)
(* CFGBuilder (semantic/cfg/builder.rs) on parse trees                      *)
(***************************************************************************)
NoCFG == [none |-> TRUE]
NoFunction == [none |-> TRUE]

\* CFG::new
CFGNew(function_id, file_id, entry, exit) ==
    [function_id |-> function_id, file_id |-> file_id, nodes |-> <<>>, edges |-> <<>>,
     entry |-> entry, exit |-> exit]

\* CFGBuilder::new
CFGBuilderNew(file_id, source) ==
    [file_id |-> file_id, source |-> source, current_function |-> NoFunction, current_cfg |-> NoCFG,
     next_node_id |-> 0, next_function_id |-> 0]

\* CFGBuilder::new_node_id: the builder after the call; the id returned is the
\* counter before it.
new_node_id(b) == [b EXCEPT !.next_node_id = @ + 1]

\* CFG::add_node and CFG::add_edge on the builder's current CFG.
add_node(b, node) == [b EXCEPT !.current_cfg.nodes = Append(@, node)]
add_edge(b, edge) == [b EXCEPT !.current_cfg.edges = Append(@, edge)]

node_range(node) == node.range

\* CFGBuilder::node_text: the source between the node's start and end, cut to
\* 100 characters.
SourceSlice(b, node) == SubSeq(b.source, node.range.start + 1, node.range.end)
node_text(b, node) == Take(SourceSlice(b, node), 100)

\* node_text(node).chars().take(50): the first 50 of the first 100 characters.
node_text_50(b, node) == Take(SourceSlice(b, node), 50)

\* A CFGNode with its statement text.
CFGNodeStmt(id, kind, source_range, statement) ==
    [id |-> id, kind |-> kind, source_range |-> source_range, statement |-> statement]

\* CFGBuilder::is_statement
is_statement(node) ==
    IF node.kind \in {"let_declaration", "expression_statement", "if_expression",
                      "while_expression", "loop_expression", "for_expression",
                      "match_expression", "return_expression", "break_expression",
                      "continue_expression"}
    THEN TRUE
    ELSE node.kind \notin {"{", "}", "(", ")", ",", ";"}

\* A build_simple_statement after which the statement is not the predecessor
\* of the next one.
BuildStatementAside(b, stmt_node, predecessor) ==
    LET stmt_id == b.next_node_id
        b1 == new_node_id(b)
        b2 == add_node(b1, CFGNodeStmt(stmt_id, "Statement", node_range(stmt_node),
                                       node_text(b, stmt_node)))
    IN  [b |-> add_edge(b2, CFGEdge(predecessor, stmt_id, "Normal")), last |-> predecessor]

\* CFGBuilder::build_simple_statement
build_simple_statement(b, stmt_node, predecessor) ==
    LET stmt_id == b.next_node_id
        b1 == new_node_id(b)
        b2 == add_node(b1, CFGNodeStmt(stmt_id, "Statement", node_range(stmt_node),
                                      node_text(b, stmt_node)))
    IN  [b |-> add_edge(b2, CFGEdge(predecessor, stmt_id, "Normal")), last |-> stmt_id]

\* An arm's last node joined to itself.
ArmEdgeToSelf(arm_last, merge_id) == CFGEdge(arm_last, arm_last, "Normal")

\* build_if, build_match: the edge from the last node of an arm to the merge.
ArmEdge(arm_last, merge_id) == CFGEdge(arm_last, merge_id, "Normal")

RECURSIVE walk_block(_, _, _)
RECURSIVE walk_statement(_, _, _)
RECURSIVE build_if(_, _, _)
RECURSIVE build_loop(_, _, _, _)
RECURSIVE build_match(_, _, _)

\* CFGBuilder::walk_block
walk_block(b, block_node, predecessor) ==
    IF block_node.kind = "block"
    THEN FoldLeft(LAMBDA st, child :
                      IF child.kind # "{" /\ child.kind # "}" /\ is_statement(child)
                      THEN walk_statement(st.b, child, st.last)
                      ELSE st,
                  [b |-> b, last |-> predecessor], block_node.children)
    ELSE IF is_statement(block_node)
         THEN walk_statement(b, block_node, predecessor)
         ELSE [b |-> b, last |-> predecessor]

\* CFGBuilder::walk_statement
walk_statement(b, stmt_node, predecessor) ==
    LET actual_node == IF stmt_node.kind = "expression_statement"
                       THEN IF Len(stmt_node.children) > 0
                            THEN stmt_node.children[1]
                            ELSE stmt_node
                       ELSE stmt_node
    IN  CASE actual_node.kind = "if_expression" -> build_if(b, actual_node, predecessor)
          [] actual_node.kind = "while_expression" ->
                 build_loop(b, actual_node, predecessor, TRUE)
          [] actual_node.kind = "loop_expression" ->
                 build_loop(b, actual_node, predecessor, FALSE)
          [] actual_node.kind = "match_expression" -> build_match(b, actual_node, predecessor)
          [] OTHER -> build_simple_statement(b, stmt_node, predecessor)

\* CFGBuilder::build_if
build_if(b, if_node, predecessor) ==
    LET branch_id == b.next_node_id
        b1 == add_edge(add_node(new_node_id(b),
                                CFGNodeStmt(branch_id, "Branch", node_range(if_node),
                                            node_text_50(b, if_node))),
                       CFGEdge(predecessor, branch_id, "Normal"))
        merge_id == b1.next_node_id
        b2 == add_node(new_node_id(b1), CFGNodeStmt(merge_id, "Merge", node_range(if_node), <<"<merge>">>))
        then_branch == child_by_field_name(if_node, "consequence")
        b3 == IF then_branch # NoNode
              THEN LET then == walk_block(b2, then_branch, branch_id)
                   IN  add_edge(then.b, ArmEdge(then.last, merge_id))
              ELSE b2
        else_branch == child_by_field_name(if_node, "alternative")
        b4 == IF else_branch # NoNode
              THEN LET else == walk_block(b3, else_branch, branch_id)
                   IN  add_edge(else.b, ArmEdge(else.last, merge_id))
              ELSE add_edge(b3, CFGEdge(branch_id, merge_id, "False"))
    IN  [b |-> b4, last |-> merge_id]

\* CFGBuilder::build_loop
build_loop(b, loop_node, predecessor, has_condition) ==
    LET header_id == b.next_node_id
        b1 == add_edge(add_node(new_node_id(b),
                                CFGNodeStmt(header_id, "LoopHeader", node_range(loop_node),
                                            node_text_50(b, loop_node))),
                       CFGEdge(predecessor, header_id, "Normal"))
        merge_id == b1.next_node_id
        b2 == add_node(new_node_id(b1), CFGNodeStmt(merge_id, "Merge", node_range(loop_node), <<"<merge>">>))
        body == child_by_field_name(loop_node, "body")
        b3 == IF body # NoNode
              THEN LET walked == walk_block(b2, body, header_id)
                       back == add_edge(walked.b, CFGEdge(walked.last, header_id, "Continue"))
                   IN  IF has_condition
                       THEN add_edge(back, CFGEdge(header_id, merge_id, "Break"))
                       ELSE back
              ELSE b2
    IN  [b |-> b3, last |-> merge_id]

\* CFGBuilder::build_match
build_match(b, match_node, predecessor) ==
    LET branch_id == b.next_node_id
        b1 == add_edge(add_node(new_node_id(b),
                                CFGNodeStmt(branch_id, "Branch", node_range(match_node), <<"match">>)),
                       CFGEdge(predecessor, branch_id, "Normal"))
        merge_id == b1.next_node_id
        b2 == add_node(new_node_id(b1), CFGNodeStmt(merge_id, "Merge", node_range(match_node), <<"<merge>">>))
        body == child_by_field_name(match_node, "body")
        b3 == IF body # NoNode
              THEN FoldLeft(LAMBDA bb, child :
                                IF child.kind = "match_arm"
                                       /\ child_by_field_name(child, "value") # NoNode
                                THEN LET arm == walk_block(bb, child_by_field_name(child, "value"),
                                                           branch_id)
                                     IN  add_edge(arm.b, ArmEdge(arm.last, merge_id))
                                ELSE bb,
                            b2, body.children)
              ELSE b2
    IN  [b |-> b3, last |-> merge_id]

\* CFGBuilder::build_function_cfg on a function_item node: the builder after
\* the call and the CFG returned.
build_function_cfg_node(b, function_node) ==
    LET function_id == b.next_function_id
        entry_id == b.next_node_id
        exit_id == entry_id + 1
        entry_range == node_range(function_node)
        cfg == [CFGNew(function_id, b.file_id, entry_id, exit_id) EXCEPT
                    !.nodes = <<CFGNodeStmt(entry_id, "Entry", entry_range, <<"<entry>">>),
                                CFGNodeStmt(exit_id, "Exit", entry_range, <<"<exit>">>)>>]
        b1 == [new_node_id(new_node_id(b)) EXCEPT
                    !.next_function_id = @ + 1,
                    !.current_function = function_id,
                    !.current_cfg = cfg]
        body == child_by_field_name(function_node, "body")
        b2 == IF body # NoNode
              THEN LET walked == walk_block(b1, body, entry_id)
                   IN  add_edge(walked.b, CFGEdge(walked.last, exit_id, "Normal"))
              ELSE b1
    IN  [b |-> [b2 EXCEPT !.current_cfg = NoCFG], cfg |-> b2.current_cfg]

\* CFGBuilder::visit_node_for_functions
RECURSIVE visit_node_for_functions(_, _)
visit_node_for_functions(st, node) ==
    IF node.kind = "function_item"
    THEN LET built == build_function_cfg_node(st.b, node)
         IN  [b |-> built.b, cfgs |-> Append(st.cfgs, built.cfg)]
    ELSE FoldLeft(LAMBDA a, child : visit_node_for_functions(a, child), st, node.children)

\* CFGBuilder::build_all on a parsed file: the builder after the call and the
\* CFGs returned.
build_all_parsed(b, parsed) ==
    visit_node_for_functions([b |-> b, cfgs |-> <<>>], parsed.tree)

(***************************************************************************)
(* The parsed files the builder is run on                                  *)
(***************************************************************************)
\* Blocks of simple statements: up to MaxStmts let declarations, or a break.
SimpleBlocks ==
    {Block([i \in 1..n |-> LetDeclaration]) : n \in 0..MaxStmts} \cup {Block(<<BreakStatement>>)}

\* An else arm as the grammar gives it: the block itself, or an else_clause
\* node around it.
ElseShapes(blocks) == blocks \cup {ElseClause(blk) : blk \in blocks}

\* The values of match arms: a call, or a block with one statement.
ArmValues == {CallExpression, Block(<<LetDeclaration>>)}

Matches == {MatchExpression(values) : values \in UNION {[1..n -> ArmValues] : n \in 0..MaxStmts}}

\* Control constructs over simple blocks.
SimpleConstructs ==
    {IfExpression(c) : c \in SimpleBlocks}
        \cup {IfElseExpression(c, a) : c \in SimpleBlocks, a \in ElseShapes(SimpleBlocks)}
        \cup {WhileExpression(c) : c \in SimpleBlocks}
        \cup {LoopExpression(c) : c \in SimpleBlocks}
        \cup Matches

\* Control constructs around one control construct.
NestedConstructs ==
    UNION {{IfExpression(Block(<<c>>)), WhileExpression(Block(<<c>>)),
            LoopExpression(Block(<<c>>)), MatchExpression(<<Block(<<c>>)>>),
            IfElseExpression(Block(<<LetDeclaration>>), ElseClause(c))} :
               c \in SimpleConstructs}

\* Function bodies: simple statements, one construct, a construct between
\* simple statements, or a function defined inside the function.
Bodies ==
    SimpleBlocks
        \cup {Block(<<BlockLikeStatement(c)>>) : c \in SimpleConstructs \cup NestedConstructs}
        \cup {Block(<<LetDeclaration, BlockLikeStatement(c), LetDeclaration>>) :
                  c \in SimpleConstructs}
        \cup {Block(<<FunctionItem(blk)>>) : blk \in SimpleBlocks}
        \cup {Block(<<LetDeclaration, FunctionItem(blk)>>) : blk \in SimpleBlocks}

\* A file of one to MaxFuncs functions, the first with any of the bodies, or
\* of one function inside an impl block.
ParsedTrees ==
    {SourceFile(<<FunctionItem(body)>> \o [i \in 1..n |-> FunctionItem(Block(<<LetDeclaration>>))]) :
         body \in Bodies, n \in 0..(MaxFuncs - 1)}
        \cup {SourceFile(<<Inner("impl_item",
                                 <<Leaf("impl"), Leaf("type_identifier"),
                                   Inner("declaration_list",
                                         <<Leaf("{"), FunctionItem(body), Leaf("}")>>, <<>>)>>,
                                 [type |-> 2, body |-> 3])>>) : body \in SimpleBlocks}

CfgFileId == 1

CfgInit ==
    /\ phase = "cfg"
    /\ semantic = [none |-> TRUE]
    /\ epochs = [k \in EpochSlots |-> NoEpoch]
    /\ builders = [k \in EpochSlots |-> NoBuilder]
    /\ disk = NoFile
    /\ saved = NoCPG
    /\ loaded = NotLoaded
    /\ sched = IdleSched
    /\ ptr = IdlePtr
    /\ taint = IdleTaint
    /\ query = IdleQuery
    /\ dfgb = IdleDfgb
    /\ symtab = IdleSymtab
    /\ tracker = IdleTracker
    /\ life = IdleLife
    /\ \E tree \in ParsedTrees :
          cfgb = [parsed |-> [file_id |-> CfgFileId, tree |-> tree],
                  builder |-> CFGBuilderNew(CfgFileId, SourceOf(tree)), pc |-> "new", cfgs |-> <<>>]

\* CFGBuilder::build_all on the parsed file.
CfgBuildAll ==
    /\ phase = "cfg"
    /\ cfgb.pc = "new"
    /\ LET built == build_all_parsed(cfgb.builder, cfgb.parsed)
       IN  cfgb' = [cfgb EXCEPT !.builder = built.b, !.cfgs = built.cfgs, !.pc = "built"]
    /\ UNCHANGED <<phase, semantic, epochs, builders, disk, saved, loaded, sched, ptr,
                   taint, query,
                   dfgb, symtab, tracker, life>>

CfgNext == CfgBuildAll

SpecCfg == CfgInit /\ [][CfgNext]_vars

(***************************************************************************)
(* Claims about the CFG builder                                            *)
(***************************************************************************)
CfgBuilt == phase = "cfg" /\ cfgb.pc = "built"

CFGEdgeKinds == {"Normal", "True", "False", "Break", "Continue"}

\* The function_item nodes of a tree in traversal order, those inside the
\* body of another function included.
RECURSIVE FunctionItems(_)
FunctionItems(node) ==
    (IF node.kind = "function_item" THEN <<node>> ELSE <<>>)
        \o ConcatAll([i \in DOMAIN node.children |-> FunctionItems(node.children[i])])

\* C15: build_all returns exactly one CFG per function_item of the tree, one
\* nested in the body of another function included, in tree traversal order,
\* with the FunctionIds 0, 1, 2, ... in that order.
C15_OneCfgPerFunction ==
    CfgBuilt =>
        LET items == FunctionItems(cfgb.parsed.tree)
        IN  /\ Len(cfgb.cfgs) = Len(items)
            /\ \A i \in DOMAIN cfgb.cfgs :
                   /\ cfgb.cfgs[i].function_id = i - 1
                   /\ i \in DOMAIN items
                          => cfgb.cfgs[i].nodes[1].source_range = items[i].range

NodesOfKind(cfg, kind) == {cfg.nodes[i].id : i \in {j \in DOMAIN cfg.nodes : cfg.nodes[j].kind = kind}}
EdgesInto(cfg, n) == {i \in DOMAIN cfg.edges : cfg.edges[i].to = n}
EdgesOutOf(cfg, n) == {i \in DOMAIN cfg.edges : cfg.edges[i].from = n}
HasEdge(cfg, from, to) == \E i \in DOMAIN cfg.edges : cfg.edges[i].from = from /\ cfg.edges[i].to = to
HasEdgeOfKind(cfg, from, to, kind) ==
    \E i \in DOMAIN cfg.edges :
        cfg.edges[i].from = from /\ cfg.edges[i].to = to /\ cfg.edges[i].kind = kind

\* The statements of a block, and the expression a statement wraps.
StatementsOf(block) == SelectSeq(block.children, LAMBDA c : c.kind \notin {"{", "}"})
Unwrapped(stmt) == IF stmt.kind = "expression_statement" THEN stmt.children[1] ELSE stmt

IsControl(stmt) ==
    Unwrapped(stmt).kind \in {"if_expression", "while_expression", "loop_expression",
                              "match_expression", "function_item"}

\* A block of at least one statement, all of them simple.
SimpleArm(block) ==
    /\ block.kind = "block"
    /\ StatementsOf(block) # <<>>
    /\ \A i \in DOMAIN StatementsOf(block) : ~IsControl(StatementsOf(block)[i])

\* The block of an else arm, whichever way the grammar wraps it.
ElseBlock(alternative) ==
    IF alternative.kind = "else_clause" THEN alternative.children[2] ELSE alternative

\* The first function of the file, when the file starts with a function.
FirstFunction == cfgb.parsed.tree.children[1]
FirstBody == StatementsOf(child_by_field_name(FirstFunction, "body"))

\* The body of the first function is one if/else with non-empty arms.
IfElseBody ==
    /\ FirstFunction.kind = "function_item"
    /\ Len(FirstBody) = 1
    /\ LET e == Unwrapped(FirstBody[1])
       IN  /\ e.kind = "if_expression"
           /\ "alternative" \in DOMAIN e.fields
           /\ SimpleArm(child_by_field_name(e, "consequence"))
           /\ SimpleArm(ElseBlock(child_by_field_name(e, "alternative")))

\* The Statement nodes with no edge to another Statement node: the ends of
\* the chains of statements.
Tails(cfg) ==
    {n \in NodesOfKind(cfg, "Statement") :
        \A m \in NodesOfKind(cfg, "Statement") : ~HasEdge(cfg, n, m)}

\* C16: for a function whose body is one if/else with non-empty arms, the CFG
\* has exactly one Branch and exactly one Merge, the tail of each of the two
\* arms has an edge to the Merge, and the only edge into Exit comes from the
\* Merge.
C16_IfElseShape ==
    (CfgBuilt /\ IfElseBody) =>
        LET cfg == cfgb.cfgs[1]
            branches == NodesOfKind(cfg, "Branch")
            merges == NodesOfKind(cfg, "Merge")
            then_arm == StatementsOf(child_by_field_name(Unwrapped(FirstBody[1]), "consequence"))
        IN  /\ Cardinality(branches) = 1
            /\ Cardinality(merges) = 1
            /\ Cardinality(Tails(cfg)) = 2
            /\ \A t \in Tails(cfg) : \A m \in merges : HasEdge(cfg, t, m)
            /\ \E i \in DOMAIN cfg.nodes :
                   /\ cfg.nodes[i].id \in Tails(cfg)
                   /\ cfg.nodes[i].source_range = then_arm[Len(then_arm)].range
            /\ Cardinality(EdgesInto(cfg, cfg.exit)) = 1
            /\ \A i \in EdgesInto(cfg, cfg.exit) : cfg.edges[i].from \in merges

\* build_all has built the CFG of a function whose body is one if/else, the
\* then arm of two statements.
C16_Witness ==
    /\ CfgBuilt
    /\ IfElseBody
    /\ Len(StatementsOf(child_by_field_name(Unwrapped(FirstBody[1]), "consequence"))) >= 2
    /\ Len(cfgb.cfgs) >= 1

\* The body of the first function is `loop { break; }`.
LoopBreakBody ==
    /\ FirstFunction.kind = "function_item"
    /\ Len(FirstBody) = 1
    /\ LET e == Unwrapped(FirstBody[1])
       IN  /\ e.kind = "loop_expression"
           /\ child_by_field_name(e, "body") = child_by_field_name(Place(LoopExpression(Block(<<BreakStatement>>)), e.range.start), "body")

\* C17: for a function whose body is `loop { break; }`, the CFG has exactly
\* one LoopHeader, the header has an outgoing Break edge to the Merge after
\* the loop, and the tail of the body has a Continue edge back to the header.
C17_LoopShape ==
    (CfgBuilt /\ LoopBreakBody) =>
        LET cfg == cfgb.cfgs[1]
            headers == NodesOfKind(cfg, "LoopHeader")
        IN  /\ Cardinality(headers) = 1
            /\ \A h \in headers :
                   /\ \E m \in NodesOfKind(cfg, "Merge") : HasEdgeOfKind(cfg, h, m, "Break")
                   /\ \E t \in Tails(cfg) : HasEdgeOfKind(cfg, t, h, "Continue")

\* C18: every node of a CFG other than its Entry, every Merge and the Exit
\* included, can be reached from the Entry along the edges.
C18_AllReachable ==
    CfgBuilt =>
        \A k \in DOMAIN cfgb.cfgs :
            LET cfg == cfgb.cfgs[k]
            IN  {cfg.nodes[i].id : i \in DOMAIN cfg.nodes}
                    \subseteq WithinHops(cfg, CFGEdgeKinds, {cfg.entry}, Len(cfg.nodes))

\* C19: every Merge node has at least two incoming edges.
C19_MergeJoins ==
    CfgBuilt =>
        \A k \in DOMAIN cfgb.cfgs :
            \A m \in NodesOfKind(cfgb.cfgs[k], "Merge") :
                Cardinality(EdgesInto(cfgb.cfgs[k], m)) >= 2

\* C20: every edge leaving a Branch node has kind True or False; in
\* particular the edge from a Branch into the first node of an arm is never
\* Normal.
C20_BranchEdgeKinds ==
    CfgBuilt =>
        \A k \in DOMAIN cfgb.cfgs :
            \A b \in NodesOfKind(cfgb.cfgs[k], "Branch") :
                \A i \in EdgesOutOf(cfgb.cfgs[k], b) :
                    cfgb.cfgs[k].edges[i].kind \in {"True", "False"}

(***************************************************************************)
(* DFGBuilder (semantic/dfg/builder.rs).  A statement text is a sequence   *)
(* of tokens; a word of it (split_whitespace) is a token with the ";" that *)
(* follows it.  The builder's symbol table and source are stored and never *)
(* read.                                                                   *)
(***************************************************************************)
\* DFG::new
DFGNew(function_id) == [function_id |-> function_id, values |-> <<>>, edges |-> <<>>]

\* DFGBuilder::new
DFGBuilderNew(cfg) ==
    [cfg |-> cfg, dfg |-> DFGNew(cfg.function_id), definitions |-> <<>>, next_value_id |-> 0]

\* CFG::get_node: the first node with the id, or NoNode.
get_node(cfg, id) ==
    LET found == SelectSeq(cfg.nodes, LAMBDA n : n.id = id)
    IN  IF found = <<>> THEN NoNode ELSE found[1]

\* stmt.contains("let "): a `let` token with a space after it.
ContainsLet(stmt) ==
    \E i \in 1..(Len(stmt) - 1) : stmt[i] = "let" /\ stmt[i + 1] # ";"

\* stmt.find(" = "): the position of the first `=` with a space on both sides,
\* or 0.
FindAssign(stmt) ==
    LET at == {i \in 2..(Len(stmt) - 1) : stmt[i] = "=" /\ stmt[i + 1] # ";"}
    IN  IF at = {} THEN 0 ELSE CHOOSE i \in at : \A j \in at : i <= j

\* split_whitespace: the words of a text, each a sequence of tokens.
RECURSIVE split_whitespace(_)
split_whitespace(stmt) ==
    IF stmt = <<>> THEN <<>>
    ELSE IF Len(stmt) > 1 /\ stmt[2] = ";"
         THEN <<SubSeq(stmt, 1, 2)>> \o split_whitespace(SubSeq(stmt, 3, Len(stmt)))
         ELSE <<SubSeq(stmt, 1, 1)>> \o split_whitespace(Tail(stmt))

\* trim_end_matches([';', '=', ':'])
RECURSIVE trim_end_matches(_)
trim_end_matches(word) ==
    IF word # <<>> /\ word[Len(word)] \in {";", "=", ":"}
    THEN trim_end_matches(SubSeq(word, 1, Len(word) - 1))
    ELSE word

\* Option<String>: None is the empty sequence, Some(name) holds the name.
NoName == <<>>
Some(name) == <<name>>

\* DFGBuilder::extract_variable_name
extract_variable_name(stmt) ==
    LET parts == split_whitespace(stmt)
    IN  IF Len(parts) >= 2 /\ parts[1] = <<"let">>
        THEN Some(trim_end_matches(parts[2]))
        ELSE NoName

\* DFGBuilder::extract_assigned_variable
extract_assigned_variable(stmt) ==
    LET eq_pos == FindAssign(stmt)
    IN  IF eq_pos > 0 THEN Some(SubSeq(stmt, 1, eq_pos - 1)) ELSE NoName

\* The value push and definition insert shared by both arms of
\* process_statement, with new_value_id.
DefineVariable(b, node_id, var_name, range) ==
    [b EXCEPT
        !.dfg.values = Append(@, [id |-> b.next_value_id,
                                  kind |-> [tag |-> "Variable", name |-> var_name],
                                  source_range |-> range]),
        !.definitions = Append(SelectSeq(@, LAMBDA d : ~(d.node = node_id /\ d.name = var_name)),
                               [node |-> node_id, name |-> var_name, value |-> b.next_value_id]),
        !.next_value_id = @ + 1]

\* DFGBuilder::process_statement
process_statement(b, node_id, stmt, range) ==
    LET b1 == IF ContainsLet(stmt) /\ extract_variable_name(stmt) # NoName
              THEN DefineVariable(b, node_id, extract_variable_name(stmt)[1], range)
              ELSE b
    IN  IF FindAssign(stmt) > 0 /\ ~ContainsLet(stmt)
           /\ extract_assigned_variable(stmt) # NoName
        THEN DefineVariable(b1, node_id, extract_assigned_variable(stmt)[1], range)
        ELSE b1

\* DFGBuilder::insert_phi_nodes.  merged_vars is a HashSet; `order` is the
\* order in which it yields its names, one of Perms(merged_vars(b, merge_node)).
insert_phi_nodes(b, merge_node, order) ==
    LET incoming == SelectSeq(b.cfg.edges, LAMBDA e : e.to = merge_node)
        Phi(acc, var_name) ==
            LET phi_id == acc.next_value_id
                defs == [i \in DOMAIN incoming |->
                            SelectSeq(acc.definitions,
                                      LAMBDA d : d.node = incoming[i].from /\ d.name = var_name)]
                acc1 == [acc EXCEPT
                            !.dfg.edges = @ \o ConcatAll(
                                [i \in DOMAIN incoming |->
                                    IF defs[i] = <<>> THEN <<>>
                                    ELSE <<DFGEdge(defs[i][1].value, phi_id, "PhiLike")>>])]
            IN  DefineVariable(acc1, merge_node, var_name, ByteRange(0, 0))
    IN  IF Len(incoming) < 2 THEN b ELSE FoldLeft(Phi, b, order)

\* The names insert_phi_nodes merges at a node.
merged_vars(b, merge_node) ==
    {d.name : d \in {b.definitions[i] : i \in {i \in DOMAIN b.definitions :
        \E j \in DOMAIN b.cfg.edges :
            b.cfg.edges[j].to = merge_node /\ b.cfg.edges[j].from = b.definitions[i].node}}}

\* DFGBuilder::walk_cfg: the node is handled by its kind; the loop over its
\* outgoing edges has an empty body.  The builder after the call, or an error.
walk_cfg(b, node_id, order) ==
    LET node == get_node(b.cfg, node_id)
    IN  IF node = NoNode
        THEN [err |-> "Node not found"]
        ELSE CASE node.kind = "Statement" ->
                      [ok |-> process_statement(b, node_id, node.statement, node.source_range)]
               [] node.kind = "Merge" -> [ok |-> insert_phi_nodes(b, node_id, order)]
               [] OTHER -> [ok |-> b]

\* DFGBuilder::build: walk_cfg from the entry node, then the DFG.  The results
\* the call can give, one per order of the names merged.
DFGBuilderBuild(cfg) ==
    LET b == DFGBuilderNew(cfg)
        Result(walked) == IF "err" \in DOMAIN walked THEN walked ELSE [ok |-> walked.ok.dfg]
    IN  {Result(walk_cfg(b, cfg.entry, order)) : order \in Perms(merged_vars(b, cfg.entry))}

\* CFG::compute_hash (semantic/model.rs): the bytes fed to SHA-256, which is
\* modelled by its preimage.
CFGComputeHash(cfg) ==
    <<cfg.function_id>>
    \o ConcatAll([i \in DOMAIN cfg.nodes |-> <<cfg.nodes[i].id, cfg.nodes[i].kind>>])
    \o ConcatAll([i \in DOMAIN cfg.edges |->
                     <<cfg.edges[i].from, cfg.edges[i].to, cfg.edges[i].kind>>])

\* DFG::compute_hash
DFGComputeHash(dfg) ==
    <<dfg.function_id>>
    \o ConcatAll([i \in DOMAIN dfg.values |-> <<dfg.values[i].id, dfg.values[i].kind>>])
    \o ConcatAll([i \in DOMAIN dfg.edges |->
                     <<dfg.edges[i].from, dfg.edges[i].to, dfg.edges[i].kind>>])

(***************************************************************************)
(* Semantic builds of the versions of a file (tests/semantic_determinism.rs *)
(* test_local_edit_local_invalidation, dfg/builder.rs test_simple_dfg):     *)
(* each version is parsed, its CFGs are built by one CFGBuilder, a DFG is   *)
(* built from each CFG, and the graphs are hashed.                          *)
(***************************************************************************)
LetBlock(n) == Block([i \in 1..n |-> Let(VarNames[i])])

\* The bodies of the function `g` that no edit touches.
UneditedBodies ==
    {LetBlock(n) : n \in 0..MaxStmts}
        \cup {Block(<<BlockLikeStatement(IfElseExpression(LetBlock(1), LetBlock(1)))>>)}

\* Two versions of a file with functions f and g: f has n statements in the
\* first and m in the second, g is the same text in both; f comes first or
\* second.
EditedFile(n, g_body, f_first) ==
    SourceFile(IF f_first
               THEN <<FunctionNamed("f", LetBlock(n)), FunctionNamed("g", g_body)>>
               ELSE <<FunctionNamed("g", g_body), FunctionNamed("f", LetBlock(n))>>)

EditPairs ==
    {<<EditedFile(nm[1], g_body, f_first), EditedFile(nm[2], g_body, f_first)>> :
        nm \in {p \in (0..MaxStmts) \X (0..MaxStmts) : p[1] # p[2]},
        g_body \in UneditedBodies, f_first \in BOOLEAN}

\* `fn test() { let x = 42; }` and the file of test_simple_dfg.
SimpleDfgFiles ==
    {<<SourceFile(<<FunctionNamed("test", LetBlock(n))>>)>> : n \in 1..MaxStmts}

DfgInit ==
    /\ phase = "dfg"
    /\ semantic = [none |-> TRUE]
    /\ epochs = [k \in EpochSlots |-> NoEpoch]
    /\ builders = [k \in EpochSlots |-> NoBuilder]
    /\ disk = NoFile
    /\ saved = NoCPG
    /\ loaded = NotLoaded
    /\ sched = IdleSched
    /\ ptr = IdlePtr
    /\ taint = IdleTaint
    /\ query = IdleQuery
    /\ cfgb = IdleCfgb
    /\ symtab = IdleSymtab
    /\ tracker = IdleTracker
    /\ life = IdleLife
    /\ \E versions \in EditPairs \cup SimpleDfgFiles :
            dfgb = [versions |-> versions, v |-> 1, pc |-> "cfg",
                    cfgs |-> <<>>, dfgs |-> <<>>, cfg_hashes |-> <<>>, dfg_hashes |-> <<>>]

\* CFGBuilder::new(file_id, source) and build_all on the current version.
DfgBuildCfgs ==
    /\ phase = "dfg"
    /\ dfgb.pc = "cfg"
    /\ LET tree == dfgb.versions[dfgb.v]
           built == build_all_parsed(CFGBuilderNew(CfgFileId, SourceOf(tree)),
                                     [file_id |-> CfgFileId, tree |-> tree])
       IN  dfgb' = [dfgb EXCEPT !.cfgs = Append(@, built.cfgs), !.pc = "dfg"]
    /\ UNCHANGED <<phase, semantic, epochs, builders, disk, saved, loaded, sched, ptr,
                   taint, query, cfgb, symtab, tracker, life>>

\* DFGBuilder::new(cfg, symbols, source).build() for each CFG of the version.
DfgBuildDfgs ==
    /\ phase = "dfg"
    /\ dfgb.pc = "dfg"
    /\ LET cfgs == dfgb.cfgs[dfgb.v]
       IN  \E dfgs \in [DOMAIN cfgs -> UNION {DFGBuilderBuild(cfgs[i]) : i \in DOMAIN cfgs}] :
              /\ \A i \in DOMAIN cfgs : dfgs[i] \in DFGBuilderBuild(cfgs[i])
              /\ dfgb' = [dfgb EXCEPT !.dfgs = Append(@, dfgs), !.pc = "hash"]
    /\ UNCHANGED <<phase, semantic, epochs, builders, disk, saved, loaded, sched, ptr,
                   taint, query, cfgb, symtab, tracker, life>>

\* compute_hash of every CFG and DFG of the version; then the next version.
DfgHash ==
    /\ phase = "dfg"
    /\ dfgb.pc = "hash"
    /\ LET cfgs == dfgb.cfgs[dfgb.v]
           dfgs == dfgb.dfgs[dfgb.v]
       IN  dfgb' = [dfgb EXCEPT
                        !.cfg_hashes = Append(@, [i \in DOMAIN cfgs |-> CFGComputeHash(cfgs[i])]),
                        !.dfg_hashes = Append(@, [i \in DOMAIN dfgs |->
                                                     IF "ok" \in DOMAIN dfgs[i]
                                                     THEN DFGComputeHash(dfgs[i].ok)
                                                     ELSE dfgs[i]]),
                        !.v = IF dfgb.v < Len(dfgb.versions) THEN @ + 1 ELSE @,
                        !.pc = IF dfgb.v < Len(dfgb.versions) THEN "cfg" ELSE "done"]
    /\ UNCHANGED <<phase, semantic, epochs, builders, disk, saved, loaded, sched, ptr,
                   taint, query, cfgb, symtab, tracker, life>>

DfgNext == DfgBuildCfgs \/ DfgBuildDfgs \/ DfgHash

SpecDfg == DfgInit /\ [][DfgNext]_vars

(***************************************************************************)
(* Claims about the DFG builder and about hashes across an edit             *)
(***************************************************************************)
DfgBuilt == phase = "dfg" /\ Len(dfgb.dfgs) >= dfgb.v

\* The name a Statement node defines, or NoName.
DefinedName(node) ==
    IF node.kind = "Statement" /\ ContainsLet(node.statement)
    THEN extract_variable_name(node.statement)
    ELSE NoName

\* The names defined by the nodes of a CFG that can be reached from its entry,
\* in node order.
DefinedNames(cfg) ==
    LET reached == WithinHops(cfg, CFGEdgeKinds, {cfg.entry}, Len(cfg.nodes))
        defining == SelectSeq(cfg.nodes,
                              LAMBDA n : n.id \in reached /\ DefinedName(n) # NoName)
    IN  [i \in DOMAIN defining |-> DefinedName(defining[i])[1]]

\* The DFG holds one Variable value per defining statement reachable from
\* the entry, in order, with the ids 0, 1, 2, ...
ValuesMatch(cfg, dfg) ==
    LET names == DefinedNames(cfg)
    IN  /\ Len(dfg.values) = Len(names)
        /\ \A i \in DOMAIN names :
              /\ dfg.values[i].kind = [tag |-> "Variable", name |-> names[i]]
              /\ dfg.values[i].id = i - 1

\* C21: DFGBuilder::build processes every CFG node reachable from Entry and
\* appends, for each Statement node that defines a variable, one value
\* Variable{name} with a fresh id, in traversal order; the DFG of
\* `fn test() { let x = 42; }` has exactly one value, Variable{x}.
C21_DfgValues ==
    DfgBuilt =>
        \A v \in DOMAIN dfgb.dfgs : \A i \in DOMAIN dfgb.dfgs[v] :
            /\ "ok" \in DOMAIN dfgb.dfgs[v][i]
            /\ ValuesMatch(dfgb.cfgs[v][i], dfgb.dfgs[v][i].ok)

\* Every DFG the builder returns is empty: only the entry node is handled.
C21_DfgsAreEmpty ==
    DfgBuilt =>
        \A v \in DOMAIN dfgb.dfgs : \A i \in DOMAIN dfgb.dfgs[v] :
            /\ "ok" \in DOMAIN dfgb.dfgs[v][i]
            /\ dfgb.dfgs[v][i].ok.values = <<>>
            /\ dfgb.dfgs[v][i].ok.edges = <<>>

\* The position of the function named `name` among the items of a file.
ItemNamed(tree, name) ==
    CHOOSE i \in DOMAIN tree.children :
        child_by_field_name(tree.children[i], "name").token = name

EditHashed == phase = "dfg" /\ dfgb.pc = "done" /\ Len(dfgb.versions) = 2

\* C22: when two versions of a file differ only inside the body of f, the
\* CFG hash and the DFG hash of the unchanged function g are the same in
\* both builds, whether g is declared before or after f.
C22_UneditedHashes ==
    EditHashed =>
        LET g1 == ItemNamed(dfgb.versions[1], "g")
            g2 == ItemNamed(dfgb.versions[2], "g")
        IN  /\ dfgb.cfg_hashes[1][g1] = dfgb.cfg_hashes[2][g2]
            /\ dfgb.dfg_hashes[1][g1] = dfgb.dfg_hashes[2][g2]

\* What does hold: the hashes of g agree when g is declared before f, and
\* its DFG hash agrees in either order.
C22_HashesOfLeadingFunction ==
    EditHashed =>
        LET g1 == ItemNamed(dfgb.versions[1], "g")
            g2 == ItemNamed(dfgb.versions[2], "g")
        IN  /\ g1 = 1 => dfgb.cfg_hashes[1][g1] = dfgb.cfg_hashes[2][g2]
            /\ g1 = 2 => dfgb.cfg_hashes[1][g1] # dfgb.cfg_hashes[2][g2]
            /\ dfgb.dfg_hashes[1][g1] = dfgb.dfg_hashes[2][g2]

(***************************************************************************)
(* SymbolTable on parse trees (semantic/symbols/table.rs, binding.rs).     *)
(* scopes and symbols are maps from ids; a scope's bindings map a name to  *)
(* the symbol last bound to it.  A name is the text of its node.           *)
(***************************************************************************)
\* Scope::new
ScopeNew(id, kind, parent) == [id |-> id, parent |-> parent, kind |-> kind, bindings |-> <<>>]

\* SymbolTable::new
SymbolTableNew(file_id) ==
    [scopes |-> (0 :> ScopeNew(0, "File", <<>>)), symbols |-> <<>>, file_scope |-> 0,
     next_scope_id |-> 1, next_symbol_id |-> 0]

\* SymbolTable::node_text
symbol_text(source, node) == SubSeq(source, node.range.start + 1, node.range.end)

\* SymbolTable::new_scope: the table after the call; the id returned is the
\* counter before it.
new_scope(t, kind, parent) ==
    [t EXCEPT !.scopes = (t.next_scope_id :> ScopeNew(t.next_scope_id, kind, parent)) @@ @,
              !.next_scope_id = @ + 1]

\* new_symbol_id, symbols.insert and Scope::add_binding on the scope if the
\* table has it: the steps that declare one symbol.
Declare(t, name, range, scope, kind) ==
    LET symbol_id == t.next_symbol_id
        t1 == [t EXCEPT !.next_symbol_id = @ + 1,
                        !.symbols = (symbol_id :> Symbol(symbol_id, name, range, scope, kind)) @@ @]
    IN  IF scope \in DOMAIN t1.scopes
        THEN [t1 EXCEPT !.scopes[scope].bindings = (name :> symbol_id) @@ @]
        ELSE t1

\* SymbolTable::visit_let_declaration
visit_let_declaration(t, node, scope, source) ==
    LET pattern == child_by_field_name(node, "pattern")
    IN  IF pattern # NoNode /\ pattern.kind = "identifier"
        THEN Declare(t, symbol_text(source, pattern), node_range(node), scope, "Variable")
        ELSE t

\* SymbolTable::visit_parameters
visit_parameters(t, params_node, scope, source) ==
    LET Param(acc, child) ==
            LET pattern == child_by_field_name(child, "pattern")
                named == child_by_field_name(pattern, "name")
                name_node == IF named # NoNode THEN named ELSE pattern
            IN  IF child.kind = "parameter" /\ pattern # NoNode
                THEN Declare(acc, symbol_text(source, name_node), node_range(pattern), scope,
                             "Parameter")
                ELSE acc
    IN  FoldLeft(Param, t, params_node.children)

RECURSIVE visit_node(_, _, _, _)
RECURSIVE visit_function(_, _, _, _)

\* SymbolTable::visit_function
visit_function(t, node, parent_scope, source) ==
    LET name_node == child_by_field_name(node, "name")
        t1 == Declare(t, symbol_text(source, name_node), node_range(node), parent_scope,
                      "Function")
        function_scope == t1.next_scope_id
        t2 == new_scope(t1, "Function", Some(parent_scope))
        params == child_by_field_name(node, "parameters")
        t3 == IF params # NoNode THEN visit_parameters(t2, params, function_scope, source) ELSE t2
        body == child_by_field_name(node, "body")
    IN  IF name_node = NoNode THEN t
        ELSE IF body # NoNode THEN visit_node(t3, body, function_scope, source) ELSE t3

\* SymbolTable::visit_node
visit_node(t, node, current_scope, source) ==
    CASE node.kind = "function_item" -> visit_function(t, node, current_scope, source)
      [] node.kind = "let_declaration" -> visit_let_declaration(t, node, current_scope, source)
      [] node.kind = "block" ->
            LET block_scope == t.next_scope_id
                t1 == new_scope(t, "Block", Some(current_scope))
            IN  FoldLeft(LAMBDA acc, child :
                            IF child.kind # "{" /\ child.kind # "}"
                            THEN visit_node(acc, child, block_scope, source)
                            ELSE acc,
                         t1, node.children)
      [] OTHER ->
            FoldLeft(LAMBDA acc, child : visit_node(acc, child, current_scope, source),
                     t, node.children)

\* SymbolTable::build
SymbolTableBuildTree(t, parsed, source) == visit_node(t, parsed.tree, t.file_scope, source)

\* Scope::get_local
get_local(scope, name) ==
    IF name \in DOMAIN scope.bindings THEN Some(scope.bindings[name]) ELSE <<>>

\* A lookup that never leaves the scope it starts in.
NoOuterScope(scope) == <<>>

\* lookup: `current_scope = scope.parent`.
OuterScope(scope) == scope.parent

\* One iteration of the loop of SymbolTable::lookup: on a scope the table
\* holds, the symbol bound locally is returned (None if the symbol map lacks
\* its id), else the walk moves to the parent; on no scope or an unknown
\* scope the result is None.
LookupStep(t, name, current_scope) ==
    IF current_scope = <<>> \/ current_scope[1] \notin DOMAIN t.scopes
    THEN [returned |-> TRUE, result |-> <<>>, current_scope |-> current_scope]
    ELSE LET scope == t.scopes[current_scope[1]]
             symbol_id == get_local(scope, name)
         IN  IF symbol_id # <<>>
             THEN [returned |-> TRUE,
                   result |-> IF symbol_id[1] \in DOMAIN t.symbols
                              THEN Some(t.symbols[symbol_id[1]]) ELSE <<>>,
                   current_scope |-> current_scope]
             ELSE [returned |-> FALSE, result |-> <<>>, current_scope |-> OuterScope(scope)]

(***************************************************************************)
(* Symbol table runs: the table of a parsed file is built, then one lookup *)
(* is made on it.                                                          *)
(***************************************************************************)
Parameter(name) ==
    Inner("parameter", <<Token("identifier", name), Leaf(":"), Token("primitive_type", "i32")>>,
          [pattern |-> 1, type |-> 3])

\* `fn <name>(<param>: i32) <block>`
FunctionWithParameter(name, param, block) ==
    Inner("function_item",
          <<Leaf("fn"), Token("identifier", name),
            Inner("parameters", <<Leaf("("), Parameter(param), Leaf(")")>>, <<>>), block>>,
          [name |-> 2, parameters |-> 3, body |-> 4])

ScopeNames == {"x", "y"}

\* Blocks of lets and nested blocks, up to MaxStmts deep:
\* `{ let a; }`, `{ let a; { let b; } }`, `{ { let b; } let a; }`, ...
RECURSIVE NestedBlocks(_)
NestedBlocks(depth) ==
    IF depth = 0 THEN {Block(<<>>)}
    ELSE LET inner == NestedBlocks(depth - 1)
         IN  inner
             \cup {Block(<<Let(a)>>) : a \in ScopeNames}
             \cup {Block(<<Let(a), BlockLikeStatement(blk)>>) : a \in ScopeNames, blk \in inner}
             \cup {Block(<<BlockLikeStatement(blk), Let(a)>>) : a \in ScopeNames, blk \in inner}

SymbolTrees ==
    {SourceFile(<<FunctionNamed(f, body)>>) : f \in {"test", "x"}, body \in NestedBlocks(MaxStmts)}
        \cup {SourceFile(<<FunctionWithParameter("test", p, body)>>) :
                 p \in ScopeNames, body \in NestedBlocks(MaxStmts - 1)}

\* The names looked up: the bound ones and one that is never bound.
LookupNames == {<<n>> : n \in ScopeNames \cup {"test", "unbound"}}

SymInit ==
    /\ phase = "symbols"
    /\ semantic = [none |-> TRUE]
    /\ epochs = [k \in EpochSlots |-> NoEpoch]
    /\ builders = [k \in EpochSlots |-> NoBuilder]
    /\ disk = NoFile
    /\ saved = NoCPG
    /\ loaded = NotLoaded
    /\ sched = IdleSched
    /\ ptr = IdlePtr
    /\ taint = IdleTaint
    /\ query = IdleQuery
    /\ cfgb = IdleCfgb
    /\ dfgb = IdleDfgb
    /\ tracker = IdleTracker
    /\ life = IdleLife
    /\ \E tree \in SymbolTrees :
          symtab = [parsed |-> [file_id |-> CfgFileId, tree |-> tree],
                    table |-> SymbolTableNew(CfgFileId), pc |-> "new",
                    name |-> <<>>, scope |-> <<>>, current_scope |-> <<>>, result |-> <<>>]

\* table.build(&parsed, source)
SymBuild ==
    /\ phase = "symbols"
    /\ symtab.pc = "new"
    /\ symtab' = [symtab EXCEPT
                      !.table = SymbolTableBuildTree(@, symtab.parsed,
                                                     SourceOf(symtab.parsed.tree)),
                      !.pc = "built"]
    /\ UNCHANGED <<phase, semantic, epochs, builders, disk, saved, loaded, sched, ptr,
                   taint, query, cfgb, dfgb, tracker, life>>

\* table.lookup(name, scope) is called: on a scope of the table, or on an id
\* the table has no scope for.
SymLookup ==
    /\ phase = "symbols"
    /\ symtab.pc = "built"
    /\ \E name \in LookupNames, scope \in 0..symtab.table.next_scope_id :
          symtab' = [symtab EXCEPT !.pc = "lookup", !.name = name, !.scope = scope,
                                   !.current_scope = Some(scope)]
    /\ UNCHANGED <<phase, semantic, epochs, builders, disk, saved, loaded, sched, ptr,
                   taint, query, cfgb, dfgb, tracker, life>>

\* One iteration of the lookup loop, or its exit.
SymLookupStep ==
    /\ phase = "symbols"
    /\ symtab.pc = "lookup"
    /\ LET step == LookupStep(symtab.table, symtab.name, symtab.current_scope)
       IN  symtab' = [symtab EXCEPT !.pc = IF step.returned THEN "returned" ELSE "lookup",
                                    !.result = step.result,
                                    !.current_scope = step.current_scope]
    /\ UNCHANGED <<phase, semantic, epochs, builders, disk, saved, loaded, sched, ptr,
                   taint, query, cfgb, dfgb, tracker, life>>

SymNext == SymBuild \/ SymLookup \/ SymLookupStep

\* A call that has started runs on: each loop iteration is taken.
SpecSym == SymInit /\ [][SymNext]_vars /\ WF_vars(SymLookupStep)

(***************************************************************************)
(* Claims about symbol lookup                                              *)
(***************************************************************************)
SymBuilt == phase = "symbols" /\ symtab.pc # "new"
LookupCalled == phase = "symbols" /\ symtab.pc = "lookup"
LookupReturned == phase = "symbols" /\ symtab.pc = "returned"

\* The scopes from `scope` outward along the parent links, at most `fuel` of
\* them.
RECURSIVE ScopeChain(_, _, _)
ScopeChain(t, scope, fuel) ==
    IF fuel = 0 \/ scope = <<>> \/ scope[1] \notin DOMAIN t.scopes
    THEN <<>>
    ELSE <<t.scopes[scope[1]]>> \o ScopeChain(t, t.scopes[scope[1]].parent, fuel - 1)

\* The symbol bound to the name in the nearest scope of the chain that binds
\* it, or None.
NearestBinding(t, name, scope) ==
    LET chain == ScopeChain(t, Some(scope), Cardinality(DOMAIN t.scopes))
        binders == {i \in DOMAIN chain : name \in DOMAIN chain[i].bindings}
    IN  IF binders = {} THEN <<>>
        ELSE LET nearest == CHOOSE i \in binders : \A j \in binders : i <= j
             IN  Some(t.symbols[chain[nearest].bindings[name]])

\* Only the File scope, scope 0, has no parent; every other scope's parent is
\* a scope of the table created before it.
ParentsWellFounded(t) ==
    \A id \in DOMAIN t.scopes :
        LET scope == t.scopes[id]
        IN  /\ scope.id = id
            /\ (scope.parent = <<>>) <=> (scope.kind = "File")
            /\ (scope.kind = "File") <=> (id = t.file_scope)
            /\ scope.parent # <<>> => scope.parent[1] \in DOMAIN t.scopes /\ scope.parent[1] < id

\* C23: lookup(name, scope) walks the parent chain outward and returns the
\* symbol bound to the name in the nearest enclosing scope that binds it, or
\* None when no scope of the chain binds it; the walk always ends, because
\* every scope's parent chain reaches the one File scope without cycles.
C23_LookupNearest ==
    /\ [](SymBuilt => ParentsWellFounded(symtab.table))
    /\ [](LookupReturned =>
            symtab.result = NearestBinding(symtab.table, symtab.name, symtab.scope))
    /\ (LookupCalled ~> LookupReturned)

\* A lookup from an inner scope of a name bound both there and in an outer
\* scope has returned the inner symbol.
C23_Witness ==
    /\ LookupReturned
    /\ symtab.result # <<>>
    /\ symtab.result[1].scope = symtab.scope
    /\ LET chain == ScopeChain(symtab.table, Some(symtab.scope),
                               Cardinality(DOMAIN symtab.table.scopes))
       IN  \E i \in 2..Len(chain) : symtab.name \in DOMAIN chain[i].bindings

\* A lookup from an inner scope has returned a symbol of an outer scope.
C23_WitnessOuter ==
    /\ LookupReturned
    /\ symtab.result # <<>>
    /\ symtab.result[1].scope # symtab.scope
    /\ symtab.result[1].kind = "Variable"

(***************************************************************************)
(* Claims about the indices of a built epoch                               *)
(***************************************************************************)
\* CPGIndices::get_edges_from: the ids listed under a node and a kind; None
\* is the empty sequence here.
indices_get_edges_from(indices, node, kind) ==
    IF node \in DOMAIN indices.node_edges /\ kind \in DOMAIN indices.node_edges[node]
    THEN indices.node_edges[node][kind]
    ELSE <<>>

\* The ids of the CPG's edges that leave `node` with the kind, in insertion
\* order.
OutgoingIds(cpg, node, kind) ==
    LET es == SelectSeq(cpg.edges, LAMBDA e : e.from = node /\ e.kind = kind)
    IN  [i \in DOMAIN es |-> es[i].id]

\* The targets of the edges with the listed ids.
TargetsOf(cpg, ids) ==
    [i \in DOMAIN ids |-> (CHOOSE j \in DOMAIN cpg.edges : cpg.edges[j].id = ids[i])]

EdgeTargets(cpg, ids) ==
    LET at == TargetsOf(cpg, ids) IN [i \in DOMAIN ids |-> cpg.edges[at[i]].to]

\* Every id a node or an edge end of the CPG carries.
IdsOf(cpg) ==
    {cpg.nodes[i].id : i \in DOMAIN cpg.nodes}
        \cup {cpg.edges[i].from : i \in DOMAIN cpg.edges}
        \cup {cpg.edges[i].to : i \in DOMAIN cpg.edges}

IndexIsAdjacency(epoch) ==
    /\ epoch.indices = CPGIndicesBuild(epoch.cpg)
    /\ \A n \in DOMAIN epoch.indices.node_edges :
          /\ n \in IdsOf(epoch.cpg)
          /\ DOMAIN epoch.indices.node_edges[n] \subseteq CPGEdgeKinds
    /\ \A n \in IdsOf(epoch.cpg), k \in CPGEdgeKinds :
          LET ids == indices_get_edges_from(epoch.indices, n, k)
          IN  /\ ids = OutgoingIds(epoch.cpg, n, k)
              /\ EdgeTargets(epoch.cpg, ids) = follow_edge(epoch.cpg, n, k)

\* C24: when CPGBuilder::build returns, the epoch's indices are those of
\* CPGIndices::build on the final CPG, and node_edges lists for every node n
\* and kind k exactly the ids of the edges with from = n and kind = k, in
\* insertion order, so that their targets are follow_edge(n, k).
C24_IndexIsAdjacency ==
    phase = "cpg" => \A k \in EpochSlots : epochs[k] # NoEpoch => IndexIsAdjacency(epochs[k])

\* A built epoch in which some node has two outgoing edges of one kind and
\* some node is the target of an edge without being the source of any.
C24_Witness ==
    /\ phase = "cpg"
    /\ \E k \in EpochSlots :
          /\ epochs[k] # NoEpoch
          /\ \E n \in IdsOf(epochs[k].cpg), kind \in CPGEdgeKinds :
                Len(indices_get_edges_from(epochs[k].indices, n, kind)) >= 2
          /\ \E n \in IdsOf(epochs[k].cpg) :
                /\ n \notin DOMAIN epochs[k].indices.node_edges
                /\ \E i \in DOMAIN epochs[k].cpg.edges : epochs[k].cpg.edges[i].to = n

(***************************************************************************)
(* Claims about the endpoints of fused edges                               *)
(***************************************************************************)
\* The CPG nodes with the given origin.
NodesWithOrigin(cpg, origin) ==
    {cpg.nodes[i].id : i \in {j \in DOMAIN cpg.nodes : cpg.nodes[j].origin = origin}}

\* The origin type an edge of the kind joins.
OriginOfKind(kind) == IF kind = "ControlFlow" THEN "Cfg" ELSE "Dfg"

\* Each end of the edge is the id of a CPG node, and that node is a CfgNode
\* (for ControlFlow) or DfgValue (for DataFlow) node.
EndpointsAreGraphNodes(cpg, e) ==
    \A end \in {e.from, e.to} :
        /\ HasNode(cpg, end)
        /\ GetNode(cpg, end).origin.type = OriginOfKind(e.kind)

\* C27: after CPGBuilder::build every CPG edge's from and to are ids of nodes
\* of the CPG: a ControlFlow edge joins CfgNode nodes, a DataFlow edge joins
\* DfgValue nodes, and no endpoint names a File, Function or Symbol node.
C27_EdgeEndpoints ==
    phase = "cpg" =>
        \A k \in EpochSlots :
            epochs[k] # NoEpoch =>
                \A i \in DOMAIN epochs[k].cpg.edges :
                    EndpointsAreGraphNodes(epochs[k].cpg, epochs[k].cpg.edges[i])

\* What the builder does: an edge's ends are the numbers of the CFG node ids
\* or DFG value ids it was fused from, whatever CPG node has that id.
C27_EndpointsAreRawIds ==
    phase = "cpg" =>
        \A k \in EpochSlots :
            epochs[k] # NoEpoch =>
                LET cpg == epochs[k].cpg
                IN  /\ \A i \in DOMAIN cpg.edges :
                          \A end \in {cpg.edges[i].from, cpg.edges[i].to} :
                              \E j \in DOMAIN cpg.nodes :
                                  cpg.nodes[j].origin
                                      = OriginRef(OriginOfKind(cpg.edges[i].kind), end)
                    /\ cpg.edges # <<>> =>
                          \E i \in DOMAIN cpg.edges :
                              HasNode(cpg, cpg.edges[i].from)
                                  /\ GetNode(cpg, cpg.edges[i].from).kind = "File"

(***************************************************************************)
(* Epoch lifetimes (memory/epoch.rs, semantic/epoch.rs, cpg/epoch.rs).     *)
(* An epoch is created from its parent layer's epoch and dropped by its    *)
(* owner.  ParseEpoch keeps an Arc to its IngestionEpoch; SemanticEpoch    *)
(* borrows the ParseEpoch for the call to new and keeps a number;          *)
(* CPGEpoch::new is given a number.  Dropping is Rust's drop: it has no    *)
(* result and no precondition.                                             *)
(***************************************************************************)
\* The most epochs created in one run.
MaxEpochs == 4

EpochLayers == <<"Ingestion", "Parse", "Semantic", "CPG">>

\* An epoch value: `owned` while its owner has not dropped it, `freed` once
\* its memory is released; `parent` is the id of the epoch it was made from
\* (0: none), `arc` whether it holds a counted reference to that parent.
EpochValue(layer, id, parent, arc) ==
    [layer |-> layer, id |-> id, parent |-> parent, arc |-> arc, owned |-> TRUE,
     freed |-> FALSE]

\* IngestionEpoch::new(marker)
IngestionEpochNew(id) == EpochValue(1, id, 0, FALSE)

\* ParseEpoch::new(marker, ingestion: Arc<IngestionEpoch>)
ParseEpochNew(id, ingestion) == EpochValue(2, id, ingestion.id, TRUE)

\* SemanticEpoch::new(&ParseEpoch, epoch_id)
SemanticEpochNew(parse_epoch, id) == EpochValue(3, id, parse_epoch.id, FALSE)

\* CPGEpoch::new(semantic_epoch_marker, epoch_id)
CPGEpochNewFrom(semantic_epoch_marker, id) == EpochValue(4, id, semantic_epoch_marker, FALSE)

\* An epoch's memory is released when its owner has dropped it and no epoch
\* that is not yet freed holds an Arc to it.
RECURSIVE Release(_)
Release(es) ==
    LET Freeable(i) ==
            /\ ~es[i].owned
            /\ ~es[i].freed
            /\ ~\E j \in DOMAIN es : es[j].arc /\ es[j].parent = es[i].id /\ ~es[j].freed
        free == {i \in DOMAIN es : Freeable(i)}
    IN  IF free = {} THEN es
        ELSE Release([i \in DOMAIN es |-> IF i \in free THEN [es[i] EXCEPT !.freed = TRUE]
                                          ELSE es[i]])

\* drop(epoch)
DropEpoch(es, i) == Release([es EXCEPT ![i].owned = FALSE])

LifeInit ==
    /\ phase = "epochs"
    /\ semantic = [none |-> TRUE]
    /\ epochs = [k \in EpochSlots |-> NoEpoch]
    /\ builders = [k \in EpochSlots |-> NoBuilder]
    /\ disk = NoFile
    /\ saved = NoCPG
    /\ loaded = NotLoaded
    /\ sched = IdleSched
    /\ ptr = IdlePtr
    /\ taint = IdleTaint
    /\ query = IdleQuery
    /\ cfgb = IdleCfgb
    /\ dfgb = IdleDfgb
    /\ symtab = IdleSymtab
    /\ tracker = IdleTracker
    /\ life = [epochs |-> <<>>, last |-> [op |-> "none", epoch |-> 0, result |-> "ok"]]

LifeStep(es, op, id) ==
    /\ life' = [epochs |-> es, last |-> [op |-> op, epoch |-> id, result |-> "ok"]]
    /\ UNCHANGED <<phase, semantic, epochs, builders, disk, saved, loaded, sched, ptr,
                   taint, query, cfgb, dfgb, symtab, tracker>>

NextEpochId == Len(life.epochs) + 1

\* The epochs of a layer that can still be passed to a constructor.
OwnedOf(layer) ==
    {i \in DOMAIN life.epochs : life.epochs[i].layer = layer /\ life.epochs[i].owned}

CreateIngestion ==
    /\ phase = "epochs"
    /\ NextEpochId <= MaxEpochs
    /\ LifeStep(Append(life.epochs, IngestionEpochNew(NextEpochId)), "new", NextEpochId)

\* The Arc passed is a clone of the owner's, or (moved) the owner's own.
CreateParse ==
    /\ phase = "epochs"
    /\ NextEpochId <= MaxEpochs
    /\ \E i \in OwnedOf(1), moved \in BOOLEAN :
          LET es == Append(life.epochs, ParseEpochNew(NextEpochId, life.epochs[i]))
          IN  LifeStep(IF moved THEN [es EXCEPT ![i].owned = FALSE] ELSE es,
                       "new", NextEpochId)

CreateSemantic ==
    /\ phase = "epochs"
    /\ NextEpochId <= MaxEpochs
    /\ \E i \in OwnedOf(2) :
          LifeStep(Append(life.epochs, SemanticEpochNew(life.epochs[i], NextEpochId)),
                   "new", NextEpochId)

\* The marker is a number: the id of some epoch created so far, or 0.
CreateCPG ==
    /\ phase = "epochs"
    /\ NextEpochId <= MaxEpochs
    /\ \E marker \in 0..Len(life.epochs) :
          LifeStep(Append(life.epochs, CPGEpochNewFrom(marker, NextEpochId)),
                   "new", NextEpochId)

Drop ==
    /\ phase = "epochs"
    /\ \E i \in DOMAIN life.epochs :
          /\ life.epochs[i].owned
          /\ LifeStep(DropEpoch(life.epochs, i), "drop", life.epochs[i].id)

LifeNext == CreateIngestion \/ CreateParse \/ CreateSemantic \/ CreateCPG \/ Drop

SpecLife == LifeInit /\ [][LifeNext]_vars

(***************************************************************************)
(* Claims about epoch lifetimes                                            *)
(***************************************************************************)
\* The epoch of the layer below that `e` was constructed from, if any.
ParentsOf(es, e) ==
    {i \in DOMAIN es : es[i].id = e.parent /\ es[i].layer = e.layer - 1}

\* C25: a parent epoch cannot be dropped while a child epoch built on it
\* exists: dropping an epoch while an epoch constructed from it is alive is
\* rejected as an error, so epochs are only ever dropped newest first.
C25_ParentOutlivesChild ==
    phase = "epochs" =>
        \A j \in DOMAIN life.epochs :
            ~life.epochs[j].freed =>
                \A i \in ParentsOf(life.epochs, life.epochs[j]) : ~life.epochs[i].freed

\* What does hold: no drop is ever rejected, and only an IngestionEpoch is
\* kept from being freed by a child (the ParseEpoch's Arc).
C25_DropNeverFails ==
    phase = "epochs" =>
        /\ life.last.result = "ok"
        /\ \A j \in DOMAIN life.epochs :
              (~life.epochs[j].freed /\ life.epochs[j].layer = 2) =>
                  \A i \in ParentsOf(life.epochs, life.epochs[j]) : ~life.epochs[i].freed
        /\ \A i \in DOMAIN life.epochs :
              life.epochs[i].layer # 1 => (life.epochs[i].freed <=> ~life.epochs[i].owned)

(***************************************************************************)
(* Claims about snapshot versions                                          *)
(***************************************************************************)
\* The file on disk holds metadata of a version other than the current one.
OtherVersionOnDisk == disk # NoFile /\ Deserialize(disk).version # STORAGE_VERSION

\* C26: a snapshot file whose stored version differs from the current one is
\* rejected: CPGSnapshot::load fails with an error instead of returning a
\* CPG, and CPGSnapshot::verify returns an error instead of a hash.
C26_VersionMismatchRejected ==
    [][(phase = "snap" /\ OtherVersionOnDisk /\ loaded' # loaded) => ~loaded'.ok]_vars

\* What does hold: verify rejects the file, and load returns an empty CPG
\* whatever the file holds.
C26_OnlyVerifyRejects ==
    [][(phase = "snap" /\ OtherVersionOnDisk /\ loaded' # loaded) =>
           \/ loaded'.op = "verify" /\ ~loaded'.ok
           \/ loaded'.op = "load" /\ loaded'.ok /\ loaded'.cpg = CPGNew]_vars

(***************************************************************************)
(* Claims about the CFG of straight-line functions                         *)
(***************************************************************************)
\* The function_item nodes build_all makes a CFG for, in order: those not
\* inside another function.
RECURSIVE OuterFunctions(_)
OuterFunctions(node) ==
    IF node.kind = "function_item" THEN <<node>>
    ELSE ConcatAll([i \in DOMAIN node.children |-> OuterFunctions(node.children[i])])

\* The body of the function is a block of simple statements only.
StraightLine(function_node) ==
    LET body == child_by_field_name(function_node, "body")
    IN  /\ body.kind = "block"
        /\ \A i \in DOMAIN StatementsOf(body) : ~IsControl(StatementsOf(body)[i])

\* The CFG is the chain Entry -> s1 -> ... -> sn -> Exit over the statements
\* of the body: one Entry, one Exit, one Statement node per statement with
\* that statement's range, all ids distinct, and the n + 1 Normal edges of
\* the chain and no other.
IsChain(cfg, function_node) ==
    LET stmts == StatementsOf(child_by_field_name(function_node, "body"))
        n == Len(stmts)
        snodes == SelectSeq(cfg.nodes, LAMBDA x : x.kind = "Statement")
        stop(i) == IF i = 0 THEN cfg.entry ELSE IF i = n + 1 THEN cfg.exit ELSE snodes[i].id
    IN  /\ Len(cfg.nodes) = n + 2
        /\ Cardinality({cfg.nodes[i].id : i \in DOMAIN cfg.nodes}) = n + 2
        /\ NodesOfKind(cfg, "Entry") = {cfg.entry}
        /\ NodesOfKind(cfg, "Exit") = {cfg.exit}
        /\ Len(snodes) = n
        /\ \A i \in 1..n : snodes[i].source_range = stmts[i].range
        /\ cfg.edges = [i \in 1..(n + 1) |-> CFGEdge(stop(i - 1), stop(i), "Normal")]

\* C28: for a function whose body is a block of n >= 0 simple statements the
\* CFG has exactly one Entry, one Exit and n Statement nodes with pairwise
\* distinct ids, and its edges are exactly the n + 1 Normal edges of the
\* chain Entry -> s1 -> ... -> sn -> Exit, in statement order.
C28_StraightLineChain ==
    CfgBuilt =>
        LET fns == OuterFunctions(cfgb.parsed.tree)
        IN  /\ Len(cfgb.cfgs) = Len(fns)
            /\ \A k \in DOMAIN fns :
                  StraightLine(fns[k]) => IsChain(cfgb.cfgs[k], fns[k])

\* A file has been built with a straight-line function of two or more
\* statements and a straight-line function that is not the first of its file.
C28_Witness ==
    /\ CfgBuilt
    /\ LET fns == OuterFunctions(cfgb.parsed.tree)
       IN  /\ \E k \in DOMAIN fns :
                 /\ StraightLine(fns[k])
                 /\ Len(StatementsOf(child_by_field_name(fns[k], "body"))) >= 2
           /\ \E k \in DOMAIN fns : StraightLine(fns[k]) /\ cfgb.cfgs[k].entry > 0

(***************************************************************************)
(* Claims about the taint BFS                                              *)
(***************************************************************************)
\* The least number of edges of the given kinds from a node of S to n, where
\* S is `hops` edges from the start; -1 if n cannot be reached.
RECURSIVE HopsTo(_, _, _, _, _)
HopsTo(cpg, kinds, S, n, hops) ==
    IF n \in S THEN hops
    ELSE LET T == S \cup Successors(cpg, kinds, S)
         IN  IF T = S THEN -1 ELSE HopsTo(cpg, kinds, T, n, hops + 1)

DataFlowDistance(cpg, from, to) == HopsTo(cpg, {"DataFlow"}, {from}, to, 0)

\* The node the BFS in progress started from.
BfsStart == taint.sources[taint.source].node

\* C29: within the BFS from one source each node is taken from the queue at
\* most once, at its shortest DataFlow distance from the source, and is never
\* put on the queue again; so for each source and each sink at most one
\* TaintPath is emitted, its path is a shortest DataFlow path, and the number
\* of turns of the BFS loop is bounded by the number of nodes, cycles or not.
C29_BfsVisitsOnce ==
    phase = "taint" =>
        /\ NoDuplicates(taint.visits \o [i \in DOMAIN taint.queue |-> taint.queue[i].node])
        /\ taint.pc = "bfs" =>
              /\ \A i \in DOMAIN taint.queue :
                    LET entry == taint.queue[i]
                    IN  /\ entry.depth = DataFlowDistance(taint.cpg, BfsStart, entry.node)
                        /\ Len(entry.path) = entry.depth + 1
                        /\ taint.visited[entry.node] = entry.depth
              /\ \A i \in DOMAIN taint.visits :
                    taint.visited[taint.visits[i]]
                        = DataFlowDistance(taint.cpg, BfsStart, taint.visits[i])
        /\ \A i, j \in DOMAIN paths(taint.analysis) :
              LET p == paths(taint.analysis)[i]
                  q == paths(taint.analysis)[j]
              IN  /\ (p.source = q.source /\ p.sink = q.sink) => i = j
                  /\ Len(p.path) - 1 = DataFlowDistance(taint.cpg, p.source.node, p.sink.node)

\* The BFS from a source on a DataFlow cycle has ended: the second node taken
\* from the queue has an edge back to the first, and a path of at least one
\* edge was emitted.
C29_Witness ==
    /\ phase = "taint"
    /\ taint.pc = "sources"
    /\ Len(taint.visits) >= 2
    /\ JoinedBy(taint.cpg, "DataFlow", taint.visits[1], taint.visits[2])
    /\ JoinedBy(taint.cpg, "DataFlow", taint.visits[2], taint.visits[1])
    /\ \E j \in DOMAIN paths(taint.analysis) : Len(paths(taint.analysis)[j].path) >= 2

(***************************************************************************)
(* InvalidationTracker (semantic/invalidation.rs).  The two maps are       *)
(* functions from keys to the Vec of what was registered under the key.    *)
(***************************************************************************)
\* The most registrations made on one tracker.
MaxTracked == 3

\* InvalidationTracker::new
InvalidationTrackerNew == [ast_to_cfg |-> <<>>, cfg_to_dfg |-> <<>>]

\* map.entry(key).or_insert_with(Vec::new).push(value)
PushUnder(map, key, value) ==
    (key :> Append(IF key \in DOMAIN map THEN map[key] ELSE <<>>, value)) @@ map

\* InvalidationTracker::track_ast_to_cfg
track_ast_to_cfg(t, range, node) == [t EXCEPT !.ast_to_cfg = PushUnder(@, range, node)]

\* InvalidationTracker::track_cfg_to_dfg
track_cfg_to_dfg(t, node, edge) == [t EXCEPT !.cfg_to_dfg = PushUnder(@, node, edge)]

\* ranges_overlap
ranges_overlap(a, b) == ~(a.end <= b.start \/ b.end <= a.start)

\* Vec::dedup: consecutive equal elements collapse to the first.
dedup(s) == SelectSeq([i \in DOMAIN s |-> IF i > 1 /\ s[i - 1] = s[i] THEN <<>> ELSE <<s[i]>>],
                      LAMBDA x : x # <<>>)

\* sort() then dedup() of a Vec of ids.
SortDedup(s) == LET d == dedup(SortByKey(IdKey, s)) IN [i \in DOMAIN d |-> d[i][1]]

\* InvalidationTracker::invalidate.  `order` is the order in which the
\* ast_to_cfg map yields its entries.
invalidate(t, changed_ranges, order) ==
    LET ForChanged(changed_range) ==
            (IF changed_range \in DOMAIN t.ast_to_cfg THEN t.ast_to_cfg[changed_range] ELSE <<>>)
            \o ConcatAll([i \in DOMAIN order |->
                             IF ranges_overlap(order[i], changed_range)
                             THEN t.ast_to_cfg[order[i]] ELSE <<>>])
        cfg_nodes == SortDedup(ConcatAll([i \in DOMAIN changed_ranges |->
                                             ForChanged(changed_ranges[i])]))
        dfg_edges == SortDedup(ConcatAll([i \in DOMAIN cfg_nodes |->
                                             IF cfg_nodes[i] \in DOMAIN t.cfg_to_dfg
                                             THEN t.cfg_to_dfg[cfg_nodes[i]] ELSE <<>>]))
    IN  [cfg_nodes |-> cfg_nodes, dfg_edges |-> dfg_edges]

(***************************************************************************)
(* Tracker runs: registrations, then one invalidate call.                  *)
(***************************************************************************)
\* ByteRange::new asserts start <= end; empty ranges are ranges.
TrackedRanges == {ByteRange(a, b) : a \in 0..2, b \in 0..2} \ {ByteRange(2, 1), ByteRange(2, 0),
                                                                ByteRange(1, 0)}
TrackedNodes == {1, 2}
TrackedEdges == {10, 11}

\* The changed ranges of a call: up to two.
ChangedRanges == UNION {[1..n -> TrackedRanges] : n \in 0..2}

InvInit ==
    /\ phase = "invalidation"
    /\ semantic = [none |-> TRUE]
    /\ epochs = [k \in EpochSlots |-> NoEpoch]
    /\ builders = [k \in EpochSlots |-> NoBuilder]
    /\ disk = NoFile
    /\ saved = NoCPG
    /\ loaded = NotLoaded
    /\ sched = IdleSched
    /\ ptr = IdlePtr
    /\ taint = IdleTaint
    /\ query = IdleQuery
    /\ cfgb = IdleCfgb
    /\ dfgb = IdleDfgb
    /\ symtab = IdleSymtab
    /\ life = IdleLife
    /\ tracker = [t |-> InvalidationTrackerNew, tracked |-> 0, pc |-> "tracking",
                  changed |-> <<>>, before |-> InvalidationTrackerNew,
                  result |-> [cfg_nodes |-> <<>>, dfg_edges |-> <<>>]]

TrackAstToCfg ==
    /\ phase = "invalidation"
    /\ tracker.pc = "tracking"
    /\ tracker.tracked < MaxTracked
    /\ \E range \in TrackedRanges, node \in TrackedNodes :
          tracker' = [tracker EXCEPT !.t = track_ast_to_cfg(@, range, node), !.tracked = @ + 1]
    /\ UNCHANGED <<phase, semantic, epochs, builders, disk, saved, loaded, sched, ptr,
                   taint, query, cfgb, dfgb, symtab, life>>

TrackCfgToDfg ==
    /\ phase = "invalidation"
    /\ tracker.pc = "tracking"
    /\ tracker.tracked < MaxTracked
    /\ \E node \in TrackedNodes, edge \in TrackedEdges :
          tracker' = [tracker EXCEPT !.t = track_cfg_to_dfg(@, node, edge), !.tracked = @ + 1]
    /\ UNCHANGED <<phase, semantic, epochs, builders, disk, saved, loaded, sched, ptr,
                   taint, query, cfgb, dfgb, symtab, life>>

\* tracker.invalidate(&changed)
Invalidate ==
    /\ phase = "invalidation"
    /\ tracker.pc = "tracking"
    /\ \E changed \in ChangedRanges, order \in Perms(DOMAIN tracker.t.ast_to_cfg) :
          tracker' = [tracker EXCEPT !.pc = "invalidated",
                                     !.changed = changed,
                                     !.before = tracker.t,
                                     !.result = invalidate(tracker.t, changed, order)]
    /\ UNCHANGED <<phase, semantic, epochs, builders, disk, saved, loaded, sched, ptr,
                   taint, query, cfgb, dfgb, symtab, life>>

InvNext == TrackAstToCfg \/ TrackCfgToDfg \/ Invalidate

SpecInv == InvInit /\ [][InvNext]_vars

(***************************************************************************)
(* Claims about invalidation                                               *)
(***************************************************************************)
Invalidated == phase = "invalidation" /\ tracker.pc = "invalidated"

\* Two ranges overlap: a.start < b.end and b.start < a.end.
Overlap(a, b) == a.start < b.end /\ b.start < a.end

\* The ids of a set in ascending order.
RECURSIVE Ascending(_)
Ascending(S) ==
    IF S = {} THEN <<>>
    ELSE LET least == CHOOSE x \in S : \A y \in S : x <= y
         IN  <<least>> \o Ascending(S \ {least})

\* The nodes registered under a range for which Hit(range, changed) holds for
\* some changed range.
NodesHit(t, changed, Hit(_, _)) ==
    UNION {Range(t.ast_to_cfg[r]) : r \in {x \in DOMAIN t.ast_to_cfg :
                                             \E i \in DOMAIN changed : Hit(x, changed[i])}}

EdgesUnder(t, nodes) ==
    UNION {Range(t.cfg_to_dfg[n]) : n \in nodes \cap DOMAIN t.cfg_to_dfg}

OverlapNodes == NodesHit(tracker.before, tracker.changed, Overlap)

\* C30: invalidate(changed) returns, sorted ascending and without duplicates,
\* exactly the CFG nodes registered under an AST range that overlaps some
\* changed range, and exactly the DFG edges registered under those nodes; a
\* node registered only under ranges that overlap no changed range is not
\* returned, and the tracker is left unchanged.
C30_InvalidateOverlapping ==
    Invalidated =>
        /\ tracker.result.cfg_nodes = Ascending(OverlapNodes)
        /\ tracker.result.dfg_edges = Ascending(EdgesUnder(tracker.before, OverlapNodes))
        /\ tracker.t = tracker.before

\* What does hold: the nodes returned are those registered under a range that
\* overlaps a changed range or is equal to one, an empty range included.
EqualOrOverlap(a, b) == a = b \/ Overlap(a, b)

EqualOrOverlapNodes == NodesHit(tracker.before, tracker.changed, EqualOrOverlap)

C30_InvalidateEqualOrOverlapping ==
    Invalidated =>
        /\ tracker.result.cfg_nodes = Ascending(EqualOrOverlapNodes)
        /\ tracker.result.dfg_edges = Ascending(EdgesUnder(tracker.before, EqualOrOverlapNodes))
        /\ tracker.t = tracker.before

====
